---- MODULE Spec2Model ----
(***************************************************************************)
(* The import pipeline of fintracker: column detection, file-format        *)
(* classification, the three row extractors, the row validators and the    *)
(* import screen that drives them.                                         *)
(*                                                                         *)
(* Text is modelled by TLA+ strings, read character by character with      *)
(* SubSeq; a number read by parseFloat is a record of its sign, integer    *)
(* part and fractional digits, so that String(parseFloat(s)) is not s.     *)
(***************************************************************************)
EXTENDS Integers, Sequences, FiniteSets, TLC

(***************************************************************************)
(* JavaScript string primitives used by the services.                      *)
(***************************************************************************)

\* s[i] of the source is CharAt(s, i + 1); "" when out of range (undefined).
CharAt(s, i) == IF i >= 1 /\ i <= Len(s) THEN SubSeq(s, i, i) ELSE ""

WhiteSpace == {" ", "\t", "\n", "\r"}

Digits == "0123456789"

\* 0 when c is not in the alphabet, else its 1-based position.
RECURSIVE IndexIn(_, _, _)
IndexIn(alphabet, c, i) ==
  IF i > Len(alphabet) THEN 0
  ELSE IF SubSeq(alphabet, i, i) = c THEN i
  ELSE IndexIn(alphabet, c, i + 1)

IsDigit(c) == c # "" /\ IndexIn(Digits, c, 1) > 0

UpperAlphabet == "ABCDEFGHIJKLMNOPQRSTUVWXYZ"

LowerAlphabet == "abcdefghijklmnopqrstuvwxyz"

LowerChar(c) ==
  LET k == IndexIn(UpperAlphabet, c, 1)
  IN  IF k = 0 THEN c ELSE SubSeq(LowerAlphabet, k, k)

RECURSIVE LowerFrom(_, _)
LowerFrom(s, i) ==
  IF i > Len(s) THEN "" ELSE LowerChar(SubSeq(s, i, i)) \o LowerFrom(s, i + 1)

\* String.prototype.toLowerCase
toLowerCase(s) == LowerFrom(s, 1)

RECURSIVE FirstNonSpace(_, _)
FirstNonSpace(s, i) ==
  IF i > Len(s) THEN i
  ELSE IF SubSeq(s, i, i) \in WhiteSpace THEN FirstNonSpace(s, i + 1)
  ELSE i

RECURSIVE LastNonSpace(_, _)
LastNonSpace(s, i) ==
  IF i < 1 THEN 0
  ELSE IF SubSeq(s, i, i) \in WhiteSpace THEN LastNonSpace(s, i - 1)
  ELSE i

\* String.prototype.trim
trim(s) == SubSeq(s, FirstNonSpace(s, 1), LastNonSpace(s, Len(s)))

\* String.prototype.includes
includes(s, sub) ==
  \E i \in 1..(Len(s) - Len(sub) + 1) : SubSeq(s, i, i + Len(sub) - 1) = sub

startsWith(s, pre) == Len(pre) <= Len(s) /\ SubSeq(s, 1, Len(pre)) = pre

endsWith(s, suf) ==
  Len(suf) <= Len(s) /\ SubSeq(s, Len(s) - Len(suf) + 1, Len(s)) = suf

\* s.replace(/[chars]/g, ''): s without the characters of the set.
RECURSIVE StripChars(_, _, _)
StripChars(s, chars, i) ==
  IF i > Len(s) THEN ""
  ELSE (IF SubSeq(s, i, i) \in chars THEN "" ELSE SubSeq(s, i, i))
         \o StripChars(s, chars, i + 1)

\* s.split(sep) for a one-character separator: a sequence of strings, cut at
\* every occurrence of the separator.
split(s, sep) ==
  LET cuts   == {k \in 1..Len(s) : SubSeq(s, k, k) = sep}
      n      == Cardinality(cuts)
      cut(j) == IF j = 0 THEN 0
                ELSE IF j > n THEN Len(s) + 1
                ELSE CHOOSE k \in cuts : Cardinality({c \in cuts : c <= k}) = j
  IN  [j \in 1..(n + 1) |-> SubSeq(s, cut(j - 1) + 1, cut(j) - 1)]

\* Array.prototype.join
RECURSIVE join(_, _)
join(cells, sep) ==
  IF Len(cells) = 0 THEN ""
  ELSE IF Len(cells) = 1 THEN cells[1]
  ELSE cells[1] \o sep \o join(Tail(cells), sep)

(***************************************************************************)
(* Numbers.  parseFloat reads the longest decimal prefix (sign, digits,    *)
(* fraction) after leading white space; the value is kept exactly as       *)
(* [nan, neg, ip, fp]: ip the integer part, fp the fractional digits       *)
(* without trailing zeros.  Input cells hold no exponent notation.         *)
(***************************************************************************)

RECURSIVE DigitRunEnd(_, _)
\* The index after the run of digits of s that starts at i.
DigitRunEnd(s, i) ==
  IF IsDigit(CharAt(s, i)) THEN DigitRunEnd(s, i + 1) ELSE i

RECURSIVE DigitsToNat(_, _)
DigitsToNat(s, acc) ==
  IF Len(s) = 0 THEN acc
  ELSE DigitsToNat(SubSeq(s, 2, Len(s)),
                   acc * 10 + (IndexIn(Digits, SubSeq(s, 1, 1), 1) - 1))

RECURSIVE StripTrailingZeros(_)
StripTrailingZeros(s) ==
  IF Len(s) > 0 /\ SubSeq(s, Len(s), Len(s)) = "0"
  THEN StripTrailingZeros(SubSeq(s, 1, Len(s) - 1))
  ELSE s

NaN == [nan |-> TRUE, neg |-> FALSE, ip |-> 0, fp |-> ""]

\* The global parseFloat.
parseFloat(s) ==
  LET i0   == FirstNonSpace(s, 1)
      sign == CharAt(s, i0)
      i1   == IF sign \in {"+", "-"} THEN i0 + 1 ELSE i0
      i2   == DigitRunEnd(s, i1)
      dot  == CharAt(s, i2) = "."
      i3   == IF dot THEN DigitRunEnd(s, i2 + 1) ELSE i2
      intDigits  == SubSeq(s, i1, i2 - 1)
      fracDigits == IF dot THEN SubSeq(s, i2 + 1, i3 - 1) ELSE ""
  IN  IF Len(intDigits) + Len(fracDigits) = 0 THEN NaN
      ELSE [nan |-> FALSE, neg |-> (sign = "-"),
            ip |-> DigitsToNat(intDigits, 0),
            fp |-> StripTrailingZeros(fracDigits)]

isNaN(n) == n.nan

IsZero(n) == ~n.nan /\ n.ip = 0 /\ n.fp = ""

\* n > 0 and n < 0 of the source; both are false of NaN.
GtZero(n) == ~n.nan /\ ~n.neg /\ ~IsZero(n)

LtZero(n) == ~n.nan /\ n.neg /\ ~IsZero(n)

RECURSIVE NatToStr(_)
NatToStr(n) ==
  IF n < 10 THEN SubSeq(Digits, n + 1, n + 1)
  ELSE NatToStr(n \div 10) \o SubSeq(Digits, (n % 10) + 1, (n % 10) + 1)

\* String(n) for a number.
NumToString(n) ==
  IF n.nan THEN "NaN"
  ELSE IF IsZero(n) THEN "0"
  ELSE (IF n.neg THEN "-" ELSE "") \o NatToStr(n.ip)
         \o (IF n.fp = "" THEN "" ELSE "." \o n.fp)

(***************************************************************************)
(* Tokenizer (csvParser.ts, parseCSVLine).                                 *)
(***************************************************************************)

RECURSIVE parseCSVLineFrom(_, _, _, _)
\* The loop of parseCSVLine at 1-based position i.
parseCSVLineFrom(line, i, current, insideQuotes) ==
  IF i > Len(line) THEN <<trim(current)>>
  ELSE LET char     == CharAt(line, i)
           nextChar == CharAt(line, i + 1)
       IN  IF char = "\""
           THEN IF insideQuotes /\ nextChar = "\""
                THEN parseCSVLineFrom(line, i + 2, current \o "\"", insideQuotes)
                ELSE parseCSVLineFrom(line, i + 1, current, ~insideQuotes)
           ELSE IF char = "," /\ ~insideQuotes
           THEN <<trim(current)>> \o parseCSVLineFrom(line, i + 1, "", insideQuotes)
           ELSE parseCSVLineFrom(line, i + 1, current \o char, insideQuotes)

\* A variant of parseCSVLine that cuts at every comma and keeps the quotes.
parseCSVLineUnquoted(line) == [k \in 1..Len(split(line, ",")) |-> trim(split(line, ",")[k])]

parseCSVLine(line) == parseCSVLineFrom(line, 1, "", FALSE)

\* rawRow[index] || '' : a missing cell reads as the empty string.
CellAt(row, index) == IF index + 1 <= Len(row) THEN row[index + 1] ELSE ""

(***************************************************************************)
(* Input files.  A file is a header line followed by at most MaxRows data  *)
(* lines, joined by line feeds; each family pairs header lines with data   *)
(* lines written for them.  Header-only files draw up to MaxCols header    *)
(* cells from HeaderCells.                                                 *)
(***************************************************************************)

MaxRows == 4

MaxCols == 3

\* Bank and flexible files need fewer lines than a sectioned statement.
MaxFlatRows == MaxRows - 2

BoundedSeq(S, n) == UNION {[1..k -> S] : k \in 0..n}

FinancialHeaders == {"Account Name,Jan 2025,Feb 2025,Mar 2025,Total"}

FinancialLines ==
  {"Income", " EXPENSE ", "Refund,(500),0,200,(300)",
   "Total Income,50,50,50,150", ""}

\* A short statement with summary rows of every kind and a line item whose
\* name only begins like one.
SummaryHeaders == {"Account,Jan 2025,Total", "Account,Jan 2025,Subtotal"}

SummaryLines ==
  {"Expense", "NOI,1,2", "operating expenses,3,3", "Net Operating Income,5,5",
   "Operating Income,6,6", "Totals,4,4", "Fees,7,n/a"}

BankHeaders ==
  {"Date,Description,Debit,Credit,Type",
   "Date,Description,Amount,Jan Total",
   "Transaction Date,Memo,Withdrawal,Deposit",
   "Transaction Date,Memo,Amount",
   "date_posted,MEMO,Amt,Category,Frequency"}

BankLines ==
  {"2025-11-15,Coffee,50.00,0,Income", "2025-11-16,Salary,0,200",
   "2025-11-17,Both,50,200,Income", "11/18/2025,,abc,10", ",,,",
   "2025-11-19,Fee,,", "2025-11-21,Gift,0,0,Income"}

FlexibleHeaders ==
  {"Type,Name,Amount,Frequency", "Title,Description,Amount", "Name,Balance", "Foo,Bar",
   "Account,Feb 2025,Mar 2025", "Account Type,Item,Income Amount",
   "Name,Amount,Value"}

FlexibleLines ==
  {"Income,Salary,5000,monthly", "Expense,,abc,weird", "A,B,10", "A,,10",
   ",B,10", ",  ,", ",10,"}

HeaderCells == {"Date", "Description", "Amount", "Type", "Jan 2025", "Subtotal", "Status"}

FilesOf(headerLines, dataLines, n) ==
  {join(<<h>> \o body, "\n") : h \in headerLines, body \in BoundedSeq(dataLines, n)}

HeaderOnlyFiles == {join(cells, ",") : cells \in BoundedSeq(HeaderCells, MaxCols) \ {<<>>}}

\* Files without a character that is not white space.
BlankFiles == {"", " ", " \n\t", "\n\n"}

Files ==
  FilesOf(FinancialHeaders, FinancialLines, MaxRows)
    \cup FilesOf(SummaryHeaders, SummaryLines, MaxFlatRows)
    \cup FilesOf(BankHeaders, BankLines, MaxFlatRows)
    \cup FilesOf(FlexibleHeaders, FlexibleLines, MaxFlatRows)
    \cup HeaderOnlyFiles
    \cup BlankFiles

Range(seq) == {seq[k] : k \in 1..Len(seq)}

\* The k-th smallest member of a set of numbers.
Nth(S, j) == CHOOSE k \in S : Cardinality({m \in S : m <= k}) = j

\* Every header cell of every input file.
KnownHeaders ==
  HeaderCells \cup
    UNION {Range([k \in 1..Len(parseCSVLine(h)) |-> trim(parseCSVLine(h)[k])]) :
             h \in FinancialHeaders \cup SummaryHeaders \cup BankHeaders \cup FlexibleHeaders}

(***************************************************************************)
(* Column type detector (columnMapper.ts).                                 *)
(***************************************************************************)

\* The catalog, in the iteration order of Object.entries(COLUMN_ALIASES).
COLUMN_ALIASES ==
  << [type |-> "type",
      aliases |-> <<"type", "txtype", "transaction type", "kind", "category type">>],
     [type |-> "date",
      aliases |-> <<"date", "transaction date", "posting date", "date posted",
                    "trans date", "date of transaction">>],
     [type |-> "description",
      aliases |-> <<"description", "memo", "detail", "transaction description",
                    "note", "narrative", "details", "name">>],
     [type |-> "amount",
      aliases |-> <<"amount", "amt", "transaction amount", "value", "total", "sum">>],
     [type |-> "debit",
      aliases |-> <<"debit", "debit amount", "withdrawal", "debit amt", "expenses", "out">>],
     [type |-> "credit",
      aliases |-> <<"credit", "credit amount", "deposit", "credit amt", "income", "in">>],
     [type |-> "category",
      aliases |-> <<"category", "cat", "expense category", "income category", "type">>],
     [type |-> "account",
      aliases |-> <<"account", "account name", "account #", "account number", "acct">>],
     [type |-> "frequency",
      aliases |-> <<"frequency", "freq", "recurring", "period", "cadence">>],
     [type |-> "name",
      aliases |-> <<"name", "account name", "item name", "description", "title">>],
     [type |-> "balance",
      aliases |-> <<"balance", "running balance", "balance after", "account balance", "bal">>],
     [type |-> "total",
      aliases |-> <<"total", "subtotal", "sum", "amount total">>],
     [type |-> "ignore", aliases |-> <<>>] >>

ColumnTypes == {COLUMN_ALIASES[k].type : k \in 1..Len(COLUMN_ALIASES)}

\* The characters /[\s_\-/\\]/ of normalizeHeader.
SeparatorChars == WhiteSpace \cup {"_", "-", "/", "\\"}

RECURSIVE CollapseSeparators(_, _, _)
\* s.replace(/[\s_\-/\\]+/g, ' '): each run of separators becomes one space.
CollapseSeparators(s, i, inRun) ==
  IF i > Len(s) THEN ""
  ELSE IF SubSeq(s, i, i) \in SeparatorChars
       THEN (IF inRun THEN "" ELSE " ") \o CollapseSeparators(s, i + 1, TRUE)
       ELSE SubSeq(s, i, i) \o CollapseSeparators(s, i + 1, FALSE)

normalizeHeader(header) ==
  trim(CollapseSeparators(trim(toLowerCase(header)), 1, FALSE))

\* The threshold of isSimilar, in tenths.
SimilarityTenths == 7

\* The number of characters of shorter found anywhere in longer.
CommonChars(shorter, longer) ==
  Cardinality({i \in 1..Len(shorter) : includes(longer, SubSeq(shorter, i, i))})

isSimilar(str1, str2) ==
  IF str1 = "" \/ str2 = "" THEN FALSE
  ELSE IF includes(str1, str2) \/ includes(str2, str1) THEN TRUE
  ELSE LET longer  == IF Len(str1) > Len(str2) THEN str1 ELSE str2
           shorter == IF Len(str1) > Len(str2) THEN str2 ELSE str1
       IN  10 * CommonChars(shorter, longer) >= SimilarityTenths * Len(longer)

\* What one alias adds to a type's matchScore (the reducer of detectColumnType).
AliasScore(normalized, alias) ==
  IF alias = normalized THEN 100
  ELSE IF includes(normalized, alias) THEN 80
  ELSE IF includes(alias, normalized) THEN 60
  ELSE IF isSimilar(normalized, alias) THEN 40
  ELSE 0

RECURSIVE matchScoreFrom(_, _, _)
\* aliases.reduce(..., 0): the scores of the aliases are added up.
matchScoreFrom(normalized, aliases, k) ==
  IF k > Len(aliases) THEN 0
  ELSE AliasScore(normalized, aliases[k]) + matchScoreFrom(normalized, aliases, k + 1)

matchScore(normalized, aliases) == matchScoreFrom(normalized, aliases, 1)

Min(a, b) == IF a <= b THEN a ELSE b

\* A variant of IsExactAlias that never finds an exact match.
NeverExactAlias(normalized, aliases) == FALSE

\* aliases.some(alias => normalized === alias)
IsExactAlias(normalized, aliases) ==
  \E a \in 1..Len(aliases) : normalized = aliases[a]

RECURSIVE detectColumnTypeFrom(_, _, _, _, _)
\* The loop of detectColumnType over the catalog, at entry k.
detectColumnTypeFrom(normalized, k, bestMatch, bestScore, suggestions) ==
  IF k > Len(COLUMN_ALIASES)
  THEN [type |-> bestMatch, confidence |-> Min(bestScore, 100),
        suggestions |-> suggestions, exact |-> FALSE]
  ELSE LET cType   == COLUMN_ALIASES[k].type
           aliases == COLUMN_ALIASES[k].aliases
           score   == matchScore(normalized, aliases)
       IN  IF IsExactAlias(normalized, aliases)
           THEN [type |-> cType, confidence |-> 100, suggestions |-> <<cType>>,
                 exact |-> TRUE]
           ELSE IF score > 0
           THEN detectColumnTypeFrom(normalized, k + 1,
                  IF score > bestScore THEN cType ELSE bestMatch,
                  IF score > bestScore THEN score ELSE bestScore,
                  Append(suggestions, cType))
           ELSE detectColumnTypeFrom(normalized, k + 1, bestMatch, bestScore, suggestions)

AliasesOf(columnType) ==
  LET k == CHOOSE j \in 1..Len(COLUMN_ALIASES) : COLUMN_ALIASES[j].type = columnType
  IN  COLUMN_ALIASES[k].aliases

Max(a, b) == IF a >= b THEN a ELSE b

RECURSIVE MaxAliasScore(_, _, _)
MaxAliasScore(normalized, aliases, k) ==
  IF k > Len(aliases) THEN 0
  ELSE Max(AliasScore(normalized, aliases[k]), MaxAliasScore(normalized, aliases, k + 1))

\* Math.max over the alias scores of a type that has aliases.
scoreSuggestion(normalized, columnType) ==
  MaxAliasScore(normalized, AliasesOf(columnType), 1)

RECURSIVE InsertByScore(_, _, _)
\* t goes after every element of sorted that scores at least as much (stable).
InsertByScore(normalized, sorted, t) ==
  IF Len(sorted) = 0 THEN <<t>>
  ELSE IF scoreSuggestion(normalized, sorted[1]) >= scoreSuggestion(normalized, t)
       THEN <<sorted[1]>> \o InsertByScore(normalized, Tail(sorted), t)
       ELSE <<t>> \o sorted

RECURSIVE SortSuggestions(_, _, _)
\* suggestions.sort((a, b) => scoreSuggestion(b) - scoreSuggestion(a))
SortSuggestions(normalized, suggestions, sorted) ==
  IF Len(suggestions) = 0 THEN sorted
  ELSE SortSuggestions(normalized, Tail(suggestions),
                       InsertByScore(normalized, sorted, suggestions[1]))

\* sorted.slice(0, 3), or [bestMatch] when there is no suggestion.
TopSuggestions(sorted, bestMatch) ==
  IF Len(sorted) > 0 THEN SubSeq(sorted, 1, Min(3, Len(sorted))) ELSE <<bestMatch>>

\* What detectColumnType returns once its loop has ended with the result found.
DetectionResult(normalized, found) ==
  IF found.exact
  THEN [type |-> found.type, confidence |-> 100, suggestions |-> found.suggestions]
  ELSE [type |-> found.type, confidence |-> found.confidence,
        suggestions |-> TopSuggestions(SortSuggestions(normalized, found.suggestions, <<>>),
                                       found.type)]

DetectionFor(normalized) ==
  DetectionResult(normalized, detectColumnTypeFrom(normalized, 1, "ignore", 0, <<>>))

detectColumnType(header) == DetectionFor(normalizeHeader(header))

\* detectColumnType is a pure function of the header cell: its results for the
\* header cells of the input files are tabulated once, when the run begins.
VARIABLE columnDetection

ColumnDetectionTable == [h \in KnownHeaders |-> detectColumnType(h)]

DetectionOf(header) ==
  IF header \in DOMAIN columnDetection
  THEN columnDetection[header] ELSE detectColumnType(header)

(***************************************************************************)
(* Format classifier (columnMapper.ts, detectFileFormat).  A mapping is a  *)
(* sequence of column types: mapping[i + 1] is the type of column i.       *)
(***************************************************************************)

TypesOf(mapping) == {mapping[i] : i \in 1..Len(mapping)}

\* A variant of detectFileFormat that tries the financial-statement rule first.
detectFileFormatStatementFirst(mapping, headers) ==
  LET types      == TypesOf(mapping)
      headerText == toLowerCase(join(headers, " "))
      hasDate        == "date" \in types
      hasDescription == "description" \in types
      hasAmount      == "amount" \in types \/ "debit" \in types \/ "credit" \in types
      hasType        == "type" \in types \/ "category" \in types
      hasName        == "name" \in types \/ "description" \in types
  IN  IF \/ includes(headerText, "jan")
         \/ includes(headerText, "jan 2")
         \/ (includes(headerText, "total") /\ "total" \in types)
      THEN "financial-statement"
      ELSE IF hasDate /\ hasDescription /\ hasAmount THEN "bank-statement"
      ELSE IF (hasType \/ hasName) /\ hasAmount THEN "simple"
      ELSE "unknown"

detectFileFormat(mapping, headers) ==
  LET types      == TypesOf(mapping)
      headerText == toLowerCase(join(headers, " "))
      hasDate        == "date" \in types
      hasDescription == "description" \in types
      hasAmount      == "amount" \in types \/ "debit" \in types \/ "credit" \in types
      hasType        == "type" \in types \/ "category" \in types
      hasName        == "name" \in types \/ "description" \in types
  IN  IF hasDate /\ hasDescription /\ hasAmount THEN "bank-statement"
      ELSE IF \/ includes(headerText, "jan")
              \/ includes(headerText, "jan 2")
              \/ (includes(headerText, "total") /\ "total" \in types)
      THEN "financial-statement"
      ELSE IF (hasType \/ hasName) /\ hasAmount THEN "simple"
      ELSE "unknown"

\* Math.round of a non-negative quotient a / b (halves round up).
RoundDiv(a, b) == (2 * a + b) \div (2 * b)

RECURSIVE SumConfidence(_, _)
SumConfidence(detected, k) ==
  IF k > Len(detected) THEN 0
  ELSE detected[k].confidence + SumConfidence(detected, k + 1)

\* The mapping detectColumns builds from the per-column detections.
MappingOf(detected) == [k \in 1..Len(detected) |-> detected[k].type]

\* What detectColumns returns, given the detection of each header.
DetectedColumnsOf(headers, detected) ==
  [mapping |-> MappingOf(detected),
   confidence |-> RoundDiv(SumConfidence(detected, 1) * 100, Len(headers)),
   detectedFormat |-> detectFileFormat(MappingOf(detected), headers),
   suggestions |-> [k \in 1..Len(detected) |-> detected[k].suggestions]]

detectColumns(headers) ==
  DetectedColumnsOf(headers, [k \in 1..Len(headers) |-> DetectionOf(headers[k])])

(***************************************************************************)
(* Normalized rows: a row is a function from the field names it holds to   *)
(* strings.  row['F'] of an absent field is undefined, which reads as ""   *)
(* wherever the source only tests or defaults it.                          *)
(***************************************************************************)

EmptyRow == [f \in {} |-> ""]

Has(row, f) == f \in DOMAIN row

Get(row, f) == IF f \in DOMAIN row THEN row[f] ELSE ""

Put(row, f, v) == [g \in (DOMAIN row) \cup {f} |-> IF g = f THEN v ELSE row[g]]

\* Object.values(row)
Values(row) == {row[f] : f \in DOMAIN row}

\* A variant of mergeName in which a Name already set is kept.
mergeNameKeepFirst(value, mappedRow) ==
  IF Get(mappedRow, "Name") # "" THEN mappedRow["Name"] ELSE value

\* value || mappedRow['Name'] || ''
mergeName(value, mappedRow) ==
  IF value # "" THEN value ELSE Get(mappedRow, "Name")

RECURSIVE mapRowFrom(_, _, _, _)
\* The forEach of mapRow over the mapping's entries, in column-index order.
mapRowFrom(rawRow, mapping, k, mappedRow) ==
  IF k > Len(mapping) THEN mappedRow
  ELSE LET columnType == mapping[k]
           value      == CellAt(rawRow, k - 1)
           next ==
             CASE columnType = "type"      -> Put(mappedRow, "Type", value)
               [] columnType = "date"      -> Put(mappedRow, "Date", value)
               [] columnType \in {"description", "name"} ->
                    Put(mappedRow, "Name", mergeName(value, mappedRow))
               [] columnType = "amount"    -> Put(mappedRow, "Amount", value)
               [] columnType = "debit"     -> Put(mappedRow, "Debit", value)
               [] columnType = "credit"    -> Put(mappedRow, "Credit", value)
               [] columnType = "category"  -> Put(mappedRow, "Category", value)
               [] columnType = "account"   -> Put(mappedRow, "Account", value)
               [] columnType = "frequency" -> Put(mappedRow, "Frequency", value)
               [] columnType = "balance"   -> Put(mappedRow, "Balance", value)
               [] columnType = "total"     -> Put(mappedRow, "Total", value)
               [] OTHER                    -> mappedRow
       IN  mapRowFrom(rawRow, mapping, k + 1, next)

mapRow(rawRow, mapping) == mapRowFrom(rawRow, mapping, 1, EmptyRow)

\* The canonical field a column type writes.
FieldOf(columnType) ==
  CASE columnType = "type"      -> "Type"
    [] columnType = "date"      -> "Date"
    [] columnType \in {"description", "name"} -> "Name"
    [] columnType = "amount"    -> "Amount"
    [] columnType = "debit"     -> "Debit"
    [] columnType = "credit"    -> "Credit"
    [] columnType = "category"  -> "Category"
    [] columnType = "account"   -> "Account"
    [] columnType = "frequency" -> "Frequency"
    [] columnType = "balance"   -> "Balance"
    [] columnType = "total"     -> "Total"

RECURSIVE KeysFrom(_, _, _)
\* Object.keys of a row built by mapRow: the fields in order of first write.
KeysFrom(mapping, k, keys) ==
  IF k > Len(mapping) THEN keys
  ELSE IF mapping[k] = "ignore" \/ \E j \in 1..Len(keys) : keys[j] = FieldOf(mapping[k])
       THEN KeysFrom(mapping, k + 1, keys)
       ELSE KeysFrom(mapping, k + 1, Append(keys, FieldOf(mapping[k])))

MappedKeys(mapping) == KeysFrom(mapping, 1, <<>>)

\* A variant of AllCellsEmpty that also takes a row with one empty cell
\* for an empty row.
SomeCellEmpty(rawRow) == \E k \in 1..Len(rawRow) : rawRow[k] = ""

\* rawRow.every(cell => !cell)
AllCellsEmpty(rawRow) == \A k \in 1..Len(rawRow) : rawRow[k] = ""

(***************************************************************************)
(* Row extractors (csvParser.ts).  Each extractor is its loop body, an     *)
(* operator from the loop's state and one source row to the next state,    *)
(* and the whole function, which runs the body over the rows in order.     *)
(***************************************************************************)

\* The body of the loop of parseFlexibleCSV.
flexibleRow(st, rawRow, mapping) ==
  IF AllCellsEmpty(rawRow) THEN st
  ELSE LET mappedRow == mapRow(rawRow, mapping)
       IN  IF ~\E v \in Values(mappedRow) : v # "" /\ trim(v) # "" THEN st
           ELSE [st EXCEPT !.rows = Append(@, mappedRow),
                           !.rawData = Append(@, rawRow)]

\* A variant of bankInfer that tests the credit before the debit.
bankInferCreditFirst(mappedRow) ==
  IF Get(mappedRow, "Debit") # "" \/ Get(mappedRow, "Credit") # ""
  THEN LET debit  == parseFloat(IF Get(mappedRow, "Debit") # ""
                                THEN mappedRow["Debit"] ELSE "0")
           credit == parseFloat(IF Get(mappedRow, "Credit") # ""
                                THEN mappedRow["Credit"] ELSE "0")
       IN  IF GtZero(credit)
           THEN Put(Put(mappedRow, "Type", "Income"), "Amount", NumToString(credit))
           ELSE IF GtZero(debit)
           THEN Put(Put(mappedRow, "Type", "Expense"), "Amount", NumToString(debit))
           ELSE mappedRow
  ELSE mappedRow

\* The debit/credit inference of parseBankStatementCSV.
bankInfer(mappedRow) ==
  IF Get(mappedRow, "Debit") # "" \/ Get(mappedRow, "Credit") # ""
  THEN LET debit  == parseFloat(IF Get(mappedRow, "Debit") # ""
                                THEN mappedRow["Debit"] ELSE "0")
           credit == parseFloat(IF Get(mappedRow, "Credit") # ""
                                THEN mappedRow["Credit"] ELSE "0")
       IN  IF GtZero(debit)
           THEN Put(Put(mappedRow, "Type", "Expense"), "Amount", NumToString(debit))
           ELSE IF GtZero(credit)
           THEN Put(Put(mappedRow, "Type", "Income"), "Amount", NumToString(credit))
           ELSE mappedRow
  ELSE mappedRow

\* A variant of Default that writes the default over any value.
DefaultAlways(row, f, v) == Put(row, f, v)

\* if (!row[f]) row[f] = v
Default(row, f, v) == IF Get(row, f) = "" THEN Put(row, f, v) ELSE row

bankDefaults(mappedRow) ==
  Default(Default(Default(Default(mappedRow,
    "Type", "Expense"), "Frequency", "one-time"), "Category", "Other"),
    "Name", "Transaction")

\* The body of the loop of parseBankStatementCSV.
bankRow(st, rawRow, mapping) ==
  IF AllCellsEmpty(rawRow) THEN st
  ELSE [st EXCEPT !.rows = Append(@, bankDefaults(bankInfer(mapRow(rawRow, mapping)))),
                  !.rawData = Append(@, rawRow)]

\* A variant of IsSummaryName that takes no row for a summary row.
NeverSummaryName(trimmedName) == FALSE

\* /^total\s|^noi|^net operating|^operating income|^operating expense/i
IsSummaryName(trimmedName) ==
  LET lower == toLowerCase(trimmedName)
  IN  \/ (startsWith(lower, "total") /\ CharAt(lower, 6) \in WhiteSpace)
      \/ startsWith(lower, "noi")
      \/ startsWith(lower, "net operating")
      \/ startsWith(lower, "operating income")
      \/ startsWith(lower, "operating expense")

RECURSIVE findIndexFrom(_, _, _)
findIndexFrom(cells, wanted, k) ==
  IF k > Len(cells) THEN -1
  ELSE IF toLowerCase(cells[k]) = wanted THEN k - 1
  ELSE findIndexFrom(cells, wanted, k + 1)

\* headers.findIndex(h => h.toLowerCase() === 'total'), 0-based, -1 if none.
totalColumnIndexOf(headers) == findIndexFrom(headers, "total", 1)

\* A variant of ValueAt that reads the last cell when there is no index.
ValueAtOrLast(values, index) ==
  IF index >= 0 THEN CellAt(values, index) ELSE CellAt(values, Len(values) - 1)

\* values[index] || '' for an index that may be -1.
ValueAt(values, index) == IF index >= 0 THEN CellAt(values, index) ELSE ""

\* A variant of SectionKnown that lets rows through before any section marker.
SectionAlwaysKnown(currentType) == TRUE

\* if (!currentType) continue
SectionKnown(currentType) == currentType # "null"

\* The body of the loop of parseFinancialStatementCSV; st.currentType is
\* "income", "expense" or "null".
financialRow(st, rawLine, totalColumnIndex) ==
  LET line        == trim(rawLine)
      values      == parseCSVLine(line)
      trimmedName == trim(trim(CellAt(values, 0)))
      rawAmount   == ValueAt(values, totalColumnIndex)
      cleanAmount == StripChars(rawAmount, {",", "$", "(", ")"}, 1)
      row == [f \in {"Type", "Name", "Amount", "Frequency", "Category", "Status"} |->
                CASE f = "Type"      -> IF st.currentType = "income"
                                        THEN "Income" ELSE "Expense"
                  [] f = "Name"      -> trimmedName
                  [] f = "Amount"    -> cleanAmount
                  [] f = "Frequency" -> "monthly"
                  [] f = "Category"  -> "Other"
                  [] f = "Status"    -> "Active"]
  IN  IF line = "" THEN st
      ELSE IF trimmedName = "" THEN st
      ELSE IF toLowerCase(trimmedName) = "income"
      THEN [st EXCEPT !.currentType = "income"]
      ELSE IF toLowerCase(trimmedName) = "expense"
      THEN [st EXCEPT !.currentType = "expense"]
      ELSE IF IsSummaryName(trimmedName) THEN st
      ELSE IF ~SectionKnown(st.currentType) THEN st
      ELSE IF cleanAmount = "" \/ isNaN(parseFloat(cleanAmount)) THEN st
      ELSE [st EXCEPT !.rows = Append(@, row), !.rawData = Append(@, values)]

RECURSIVE flexibleRows(_, _, _, _)
flexibleRows(st, csvLines, k, mapping) ==
  IF k > Len(csvLines) THEN st
  ELSE flexibleRows(flexibleRow(st, csvLines[k], mapping), csvLines, k + 1, mapping)

RECURSIVE bankRows(_, _, _, _)
bankRows(st, csvLines, k, mapping) ==
  IF k > Len(csvLines) THEN st
  ELSE bankRows(bankRow(st, csvLines[k], mapping), csvLines, k + 1, mapping)

RECURSIVE financialRows(_, _, _, _)
financialRows(st, lines, k, totalColumnIndex) ==
  IF k > Len(lines) THEN st
  ELSE financialRows(financialRow(st, lines[k], totalColumnIndex), lines, k + 1,
                     totalColumnIndex)

\* The state of an extractor's loop before its first row.
LoopStart(headers) == [currentType |-> "null", rows |-> <<>>, rawData |-> <<headers>>]

\* What parseFlexibleCSV returns once its loop has ended in state st.
flexibleResult(st, headers, detectedColumns) ==
  [headers |-> IF Len(st.rows) > 0 THEN MappedKeys(detectedColumns.mapping) ELSE headers,
   rows |-> st.rows,
   rawData |-> st.rawData,
   format |-> IF detectedColumns.detectedFormat = "bank-statement"
              THEN "bank-statement" ELSE "simple",
   detectedColumns |-> detectedColumns,
   columnMappingConfidence |-> detectedColumns.confidence]

\* What parseBankStatementCSV returns once its loop has ended in state st.
bankResult(st, detectedColumns) ==
  [headers |-> <<"Type", "Date", "Name", "Amount", "Frequency", "Category">>,
   rows |-> st.rows,
   rawData |-> st.rawData,
   format |-> "bank-statement",
   detectedColumns |-> detectedColumns,
   columnMappingConfidence |-> detectedColumns.confidence]

\* What parseFinancialStatementCSV returns once its loop has ended in state st.
financialResult(st) ==
  [headers |-> <<"Type", "Name", "Amount", "Frequency", "Category", "Status">>,
   rows |-> st.rows,
   rawData |-> st.rawData,
   format |-> "financial-statement"]

parseFlexibleCSV(csvLines, headers, detectedColumns) ==
  flexibleResult(flexibleRows(LoopStart(headers), csvLines, 2, detectedColumns.mapping),
                 headers, detectedColumns)

parseBankStatementCSV(csvLines, headers, detectedColumns) ==
  bankResult(bankRows(LoopStart(headers), csvLines, 2, detectedColumns.mapping),
             detectedColumns)

TrimAll(cells) == [k \in 1..Len(cells) |-> trim(cells[k])]

parseFinancialStatementCSV(lines) ==
  LET headers == TrimAll(parseCSVLine(lines[1]))
  IN  financialResult(financialRows(LoopStart(headers), lines, 2,
                                    totalColumnIndexOf(headers)))

\* content.trim().split('\n')
LinesOf(content) == split(trim(content), "\n")

\* parseCSV from the detection on: the extractor is picked by the format.
parseAs(lines, csvLines, headers, detectedColumns) ==
  IF detectedColumns.detectedFormat = "financial-statement"
  THEN parseFinancialStatementCSV(lines)
  ELSE IF detectedColumns.detectedFormat = "bank-statement"
  THEN parseBankStatementCSV(csvLines, headers, detectedColumns)
  ELSE parseFlexibleCSV(csvLines, headers, detectedColumns)

parseLines(lines, csvLines, headers) ==
  parseAs(lines, csvLines, headers, detectColumns(headers))

parseTokens(lines, csvLines) == parseLines(lines, csvLines, TrimAll(csvLines[1]))

parseSplit(lines) == parseTokens(lines, [k \in 1..Len(lines) |-> parseCSVLine(lines[k])])

parseCSV(content) == parseSplit(LinesOf(content))

(***************************************************************************)
(* Data type detection and row validation (csvParser.ts).                  *)
(***************************************************************************)

\* headers.some(h => one of the words is in h), h lower-cased and stripped of
\* '_', '-' and white space.
SomeHeaderIncludes(normalizedHeaders, words) ==
  \E k \in 1..Len(normalizedHeaders) :
    \E w \in words : includes(normalizedHeaders[k], w)

detectCSVType(parsedHeaders) ==
  LET normalizedHeaders ==
        [k \in 1..Len(parsedHeaders) |->
           StripChars(toLowerCase(parsedHeaders[k]), {"_", "-"} \cup WhiteSpace, 1)]
      hasNameCol   == SomeHeaderIncludes(normalizedHeaders, {"type", "name", "description"})
      hasAmountCol == SomeHeaderIncludes(normalizedHeaders, {"amount", "value", "total"})
      hasFrequency   == SomeHeaderIncludes(normalizedHeaders, {"frequency"})
      hasDebitCredit == SomeHeaderIncludes(normalizedHeaders, {"debit", "credit"})
      hasDate        == SomeHeaderIncludes(normalizedHeaders, {"date"})
      hasAssetLiabilityMarkers ==
        SomeHeaderIncludes(normalizedHeaders,
          {"balance", "currentvalue", "valuationdate", "interestrate", "monthlypayment"})
  IN  IF hasNameCol /\ hasAmountCol /\ (hasFrequency \/ hasDebitCredit \/ hasDate)
      THEN "income-expense"
      ELSE IF hasAssetLiabilityMarkers THEN "asset-liability"
      ELSE IF hasAmountCol THEN "income-expense"
      ELSE "unknown"

\* s matches /^\d{a}/ for some a in lo..hi, followed by the rest: the set of
\* positions right after such a run of digits starting at position from.
AfterDigits(s, from, lo, hi) ==
  {from + a : a \in {b \in lo..hi : \A k \in from..(from + b - 1) : IsDigit(CharAt(s, k))}}

\* /^\d{1,2}SEP\d{1,2}SEP\d{2,4}/
MatchesDayMonthYear(s, sep) ==
  \E p \in AfterDigits(s, 1, 1, 2) :
    /\ CharAt(s, p) = sep
    /\ \E q \in AfterDigits(s, p + 1, 1, 2) :
         CharAt(s, q) = sep /\ AfterDigits(s, q + 1, 2, 4) # {}

isValidDateString(dateStr) ==
  LET t == trim(dateStr)
  IN  \/ dateStr = ""
      \/ \E p \in AfterDigits(t, 1, 4, 4) :
           /\ CharAt(t, p) = "-"
           /\ \E q \in AfterDigits(t, p + 1, 2, 2) :
                CharAt(t, q) = "-" /\ AfterDigits(t, q + 1, 2, 2) # {}
      \/ MatchesDayMonthYear(t, "/")
      \/ MatchesDayMonthYear(t, "-")
      \/ \E m \in {"jan", "feb", "mar", "apr", "may", "jun",
                   "jul", "aug", "sep", "oct", "nov", "dec"} :
           startsWith(toLowerCase(t), m)

\* The errors validateIncomeExpenseRow collects for a row, in order.
validationErrors(row) ==
  LET typeValue == toLowerCase(trim(Get(row, "Type")))
      debitOk   == Get(row, "Debit") # "" /\ GtZero(parseFloat(row["Debit"]))
      creditOk  == Get(row, "Credit") # "" /\ GtZero(parseFloat(row["Credit"]))
      typeErrors ==
        IF typeValue = ""
        THEN <<"Type is required (must be \"Income\" or \"Expense\")">>
        ELSE IF ~(includes(typeValue, "income") \/ includes(typeValue, "expense"))
                /\ ~debitOk /\ ~creditOk
        THEN <<"Type must be \"Income\" or \"Expense\" (got: \"" \o row["Type"] \o "\")">>
        ELSE <<>>
      nameErrors ==
        IF Get(row, "Name") = "" \/ trim(row["Name"]) = ""
        THEN <<"Description/Name is required">> ELSE <<>>
      amountValue == parseFloat(StripChars(Get(row, "Amount"), {"$", ",", "(", ")"}, 1))
      debit  == parseFloat(IF Get(row, "Debit") # "" THEN row["Debit"] ELSE "0")
      credit == parseFloat(IF Get(row, "Credit") # "" THEN row["Credit"] ELSE "0")
      amountErrors ==
        IF Get(row, "Amount") # ""
        THEN IF isNaN(amountValue)
             THEN <<"Amount must be a valid number (got: \"" \o row["Amount"] \o "\")">>
             ELSE IF LtZero(amountValue) THEN <<"Amount must be positive">>
             ELSE <<>>
        ELSE IF Get(row, "Debit") # "" \/ Get(row, "Credit") # ""
        THEN IF isNaN(debit) /\ isNaN(credit)
             THEN <<"Debit or Credit amount must be a valid number">> ELSE <<>>
        ELSE <<"Amount (or Debit/Credit) is required">>
      dateErrors ==
        IF Get(row, "Date") # "" /\ ~isValidDateString(row["Date"])
        THEN <<"Date format not recognized (got: \"" \o row["Date"] \o "\")">>
        ELSE <<>>
  IN  typeErrors \o nameErrors \o amountErrors \o dateErrors

\* A variant of Validation that keeps the first error only, as a validator
\* that returns at the first failed check would.
ValidationFirstError(errors) ==
  [valid |-> Len(errors) = 0, errors |-> IF Len(errors) > 1 THEN <<errors[1]>> ELSE errors]

\* { valid: errors.length === 0, errors }
Validation(errors) == [valid |-> Len(errors) = 0, errors |-> errors]

validateIncomeExpenseRow(row) == Validation(validationErrors(row))

(***************************************************************************)
(* Excel files (csvParser.ts, parseExcel).  The first sheet is a grid of   *)
(* cells as XLSX.utils.sheet_to_json(sheet, {header: 1}) returns them: a   *)
(* numeric cell is a number, any other cell is its text.                   *)
(***************************************************************************)

\* A cell whose text is a plain decimal number is held by the sheet as a number.
IsNumberText(s) ==
  /\ s # ""
  /\ \A k \in 1..Len(s) : IsDigit(CharAt(s, k)) \/ CharAt(s, k) = "."
  /\ Cardinality({k \in 1..Len(s) : CharAt(s, k) = "."}) <= 1
  /\ \E k \in 1..Len(s) : IsDigit(CharAt(s, k))

\* String(v || '') for a cell v: the number 0 and the empty text are falsy.
CellText(cell) ==
  IF IsNumberText(cell)
  THEN IF IsZero(parseFloat(cell)) THEN "" ELSE NumToString(parseFloat(cell))
  ELSE cell

\* String(h).trim() for a header cell.
HeaderText(cell) ==
  trim(IF IsNumberText(cell) THEN NumToString(parseFloat(cell)) ELSE cell)

\* The outcome of a parse: the dataset, or the error thrown.
Parsed(data) == [ok |-> TRUE, data |-> data]

Thrown(error) == [ok |-> FALSE, error |-> error]

\* parseExcel from the detection on.
excelAs(cellRows, excelHeaders, detection) ==
  IF detection.detectedFormat = "financial-statement"
  THEN Parsed(parseFinancialStatementCSV(
                [r \in 1..Len(cellRows) |-> join(cellRows[r], ",")]))
  ELSE Parsed(parseFlexibleCSV(cellRows, excelHeaders, detection))

excelRows(cellRows, excelHeaders) ==
  excelAs(cellRows, excelHeaders, detectColumns(excelHeaders))

parseExcel(sheet) ==
  IF Len(sheet) = 0 THEN Thrown("Empty Excel sheet")
  ELSE excelRows([r \in 1..Len(sheet) |->
                    [k \in 1..Len(sheet[r]) |-> CellText(sheet[r][k])]],
                 [k \in 1..Len(sheet[1]) |-> HeaderText(sheet[1][k])])

\* getFormatLabel of ImportCenter.tsx
getFormatLabel(format) ==
  CASE format = "simple"              -> "Simple Format"
    [] format = "financial-statement" -> "Financial Statement"
    [] format = "bank-statement"      -> "Bank Statement"
    [] OTHER                          -> "Unknown Format"

(***************************************************************************)
(* The parse of one file, step by step: parseCSV reads the header and      *)
(* picks the extractor (ParseStart), the extractor's loop handles one      *)
(* source row per step, and Return builds the dataset.                     *)
(***************************************************************************)

VARIABLES
  content,          \* the text handed to parseCSV
  pc,               \* "start", the running extractor, or "done"
  lines,            \* content.trim().split('\n')
  headers,          \* the trimmed cells of the first line
  detectedColumns,  \* detectColumns(headers)
  i,                \* the loop index of the extractor (0-based, as in the source)
  currentType,      \* financial-statement section: "income", "expense", "null"
  rows,             \* the rows pushed so far
  rawData,          \* the raw rows pushed so far
  result            \* the ParsedCSVData returned

\* The state of the ImportCenter component (ImportCenter.tsx).
VARIABLES
  upload,           \* the file handleFileUpload is reading, NoFile when none
  preview,          \* the ImportPreview shown, NoPreview for null
  isProcessing,
  message,          \* the message shown, NoMessage for null
  selectedRows      \* the set of selected row indices

\* The import side of the component, and the store it writes (db/dexie.ts).
VARIABLES
  importResult,     \* { incomeCount, expenseCount }, NoImportResult for null
  importing,        \* the preview and selection a running handleImport holds
  store             \* the records added to db.incomes and db.expenses, in order

importVars == <<importResult, importing, store>>

\* The column-mapping dialog (components/forms/ColumnMappingUI.tsx).
VARIABLE overrides   \* the number of columns the user has re-typed

\* A call of parseCSVLine on its own.
VARIABLES
  tokenLine,        \* the line handed to parseCSVLine
  tokenCells        \* the cells returned, <<>> before the call

lineVars == <<tokenLine, tokenCells>>

parseVars == <<content, pc, lines, headers, detectedColumns, i, currentType, rows,
               rawData, result>>

uiVars == <<upload, preview, isProcessing, message, selectedRows>>

vars == <<columnDetection, lineVars, overrides, parseVars, uiVars, importVars>>

NoFile == [name |-> "", text |-> ""]

NoPreview == [type |-> "null"]

NoMessage == [type |-> "null", text |-> ""]

NoImportResult == [type |-> "null"]

\* No handleImport is running.
NoImport == [type |-> "null"]

\* The component as it is mounted.
UIInit ==
  /\ overrides = 0
  /\ importResult = NoImportResult
  /\ importing = NoImport
  /\ store = <<>>
  /\ upload = NoFile
  /\ preview = NoPreview
  /\ isProcessing = FALSE
  /\ message = NoMessage
  /\ selectedRows = {}

NoDetection ==
  [mapping |-> <<>>, confidence |-> 0, detectedFormat |-> "unknown", suggestions |-> <<>>]

NoResult == [headers |-> <<>>, rows |-> <<>>, rawData |-> <<>>, format |-> "none"]

NoLine == tokenLine = "" /\ tokenCells = <<>>

Init ==
  /\ columnDetection = ColumnDetectionTable
  /\ NoLine
  /\ content \in Files
  /\ pc = "start"
  /\ lines = <<>>
  /\ headers = <<>>
  /\ detectedColumns = NoDetection
  /\ i = 0
  /\ currentType = "null"
  /\ rows = <<>>
  /\ rawData = <<>>
  /\ result = NoResult
  /\ UIInit

\* The extractor parseCSV hands the file to.
ExtractorFor(format) ==
  IF format \in {"financial-statement", "bank-statement"} THEN format ELSE "flexible"

\* if (lines.length === 0) throw new Error('Empty CSV file'); csvLines has
\* the length of lines, so the second throw of parseCSV has the same guard.
NoLines(csvLines) == Len(csvLines) = 0

\* parseCSV up to the call of the extractor, and the extractor up to its loop;
\* pc is "thrown" when parseCSV throws.
ParseStart ==
  /\ pc = "start"
  /\ lines' = LinesOf(content)
  /\ headers' = IF NoLines(lines') THEN <<>> ELSE TrimAll(parseCSVLine(lines'[1]))
  /\ detectedColumns' = IF NoLines(lines') THEN NoDetection ELSE detectColumns(headers')
  /\ pc' = IF NoLines(lines') THEN "thrown"
           ELSE ExtractorFor(detectedColumns'.detectedFormat)
  /\ i' = 1
  /\ currentType' = "null"
  /\ rows' = <<>>
  /\ rawData' = <<headers'>>
  /\ UNCHANGED <<columnDetection, lineVars, overrides, importVars, uiVars, content, result>>

LoopState == [currentType |-> currentType, rows |-> rows, rawData |-> rawData]

SetLoopState(st) ==
  /\ currentType' = st.currentType
  /\ rows' = st.rows
  /\ rawData' = st.rawData

FinancialRowStep ==
  /\ pc = "financial-statement"
  /\ i < Len(lines)
  /\ SetLoopState(financialRow(LoopState, lines[i + 1], totalColumnIndexOf(headers)))
  /\ i' = i + 1
  /\ UNCHANGED <<columnDetection, lineVars, overrides, importVars, uiVars, content, pc, lines, headers, detectedColumns, result>>

BankRowStep ==
  /\ pc = "bank-statement"
  /\ i < Len(lines)
  /\ SetLoopState(bankRow(LoopState, parseCSVLine(lines[i + 1]), detectedColumns.mapping))
  /\ i' = i + 1
  /\ UNCHANGED <<columnDetection, lineVars, overrides, importVars, uiVars, content, pc, lines, headers, detectedColumns, result>>

FlexibleRowStep ==
  /\ pc = "flexible"
  /\ i < Len(lines)
  /\ SetLoopState(flexibleRow(LoopState, parseCSVLine(lines[i + 1]),
                              detectedColumns.mapping))
  /\ i' = i + 1
  /\ UNCHANGED <<columnDetection, lineVars, overrides, importVars, uiVars, content, pc, lines, headers, detectedColumns, result>>

Return ==
  /\ pc \in {"financial-statement", "bank-statement", "flexible"}
  /\ i = Len(lines)
  /\ result' = CASE pc = "financial-statement" -> financialResult(LoopState)
                 [] pc = "bank-statement" -> bankResult(LoopState, detectedColumns)
                 [] pc = "flexible" -> flexibleResult(LoopState, headers, detectedColumns)
  /\ pc' = "done"
  /\ UNCHANGED <<columnDetection, lineVars, overrides, importVars, uiVars, content, lines, headers, detectedColumns, i, currentType, rows, rawData>>

Next == ParseStart \/ FinancialRowStep \/ BankRowStep \/ FlexibleRowStep \/ Return

Spec == Init /\ [][Next]_vars

(***************************************************************************)
(* Properties of the financial-statement extractor.  A step of its loop is *)
(* a step with pc = "financial-statement" that advances i; the source line *)
(* it handles is lines[i + 1].                                             *)
(***************************************************************************)

FinancialStep == pc = "financial-statement" /\ i' = i + 1

\* The rows of a financial-statement parse, while it runs and once returned.
InFinancialParse ==
  \/ pc = "financial-statement"
  \/ (pc = "done" /\ result.format = "financial-statement")

MonthNames ==
  <<"jan", "feb", "mar", "apr", "may", "jun", "jul", "aug", "sep", "oct", "nov", "dec">>

\* The number of the month a header names (three-letter or full name), 0 if none.
MonthOf(header) ==
  LET h == toLowerCase(trim(header))
      m == {k \in 1..12 : startsWith(h, MonthNames[k])}
  IN  IF m = {} THEN 0 ELSE CHOOSE k \in m : TRUE

MonthColumns(headerCells) == {k \in 1..Len(headerCells) : MonthOf(headerCells[k]) > 0}

\* 'Jan 2025' -> "2025-01-01": the first day of the header's month.
MonthIso(header) ==
  LET h == trim(header)
      m == MonthOf(header)
  IN  SubSeq(h, Len(h) - 3, Len(h)) \o "-"
        \o (IF m < 10 THEN "0" ELSE "") \o NatToStr(m) \o "-01"

\* The cells of a source line of the statement.
CellsOf(rawLine) == parseCSVLine(trim(rawLine))

\* A line item under a section: not blank, not a section marker, not a
\* summary row, and read while a section is current.
IsLineItem(section, rawLine) ==
  LET name == trim(CellAt(CellsOf(rawLine), 0))
  IN  /\ section # "null"
      /\ name # ""
      /\ toLowerCase(name) \notin {"income", "expense"}
      /\ ~IsSummaryName(name)

\* The month cells of a line whose parsed value is not zero.
NonZeroMonths(rawLine) ==
  {k \in MonthColumns(headers) :
     LET v == parseFloat(StripChars(CellAt(CellsOf(rawLine), k - 1),
                                    {",", "$", "(", ")"}, 1))
     IN  ~isNaN(v) /\ ~IsZero(v)}

\* The amount a cell denotes in accounting notation: '(500)' is -500.
AccountingAmount(cell) ==
  LET t     == trim(cell)
      clean == StripChars(t, {",", "$", "(", ")"}, 1)
  IN  IF startsWith(t, "(") /\ endsWith(t, ")") THEN "-" \o clean ELSE clean

\* The positions of the headers equal to 'total', whatever their case.
TotalColumns(headerCells) ==
  {c \in 1..Len(headerCells) : toLowerCase(headerCells[c]) = "total"}

\* The cell is a number once ',', '$', '(' and ')' are stripped from it.
NumericCell(cell) ==
  /\ StripChars(cell, {",", "$", "(", ")"}, 1) # ""
  /\ ~isNaN(parseFloat(StripChars(cell, {",", "$", "(", ")"}, 1)))

\* C29: the financial-statement extractor emits rows for a line only if
\* the line's cell in the first column whose header equals 'total' is
\* numeric after stripping; a statement with no such header has no rows.
RowsNeedNumericTotal ==
  [][/\ (FinancialStep /\ Len(rows') > Len(rows)) =>
          /\ TotalColumns(headers) # {}
          /\ NumericCell(CellAt(CellsOf(lines[i + 1]),
                                Nth(TotalColumns(headers), 1) - 1))
     /\ (InFinancialParse' /\ TotalColumns(headers') = {}) => rows' = <<>>]_vars

\* C29 witness: a statement without a 'total' header has been read to its
\* end, a line item with a numeric month cell under a section included, and
\* has given no row.
StatementWithoutTotalIsEmpty ==
  /\ pc = "done"
  /\ content = "Account,Jan 2025,Subtotal\nExpense\nTotals,4,4"
  /\ detectedColumns.detectedFormat = "financial-statement"
  /\ result.format = "financial-statement"
  /\ result.rows = <<>>

\* C1: a line item under a section adds exactly as many rows as it has month
\* cells whose parsed value is not zero.
MonthExplosionConservation ==
  [][(FinancialStep /\ IsLineItem(currentType, lines[i + 1]))
       => Len(rows') - Len(rows) = Cardinality(NonZeroMonths(lines[i + 1]))]_vars

\* C2: every row of a financial-statement parse carries a 'Transaction Date'
\* that is the first day, in ISO form, of the month one of the headers names.
TransactionDateIsFirstOfMonth ==
  InFinancialParse =>
    \A k \in 1..Len(rows) :
      /\ Has(rows[k], "Transaction Date")
      /\ rows[k]["Transaction Date"]
           \in {MonthIso(headers[c]) : c \in MonthColumns(headers)}

\* C3: the Amount of an emitted row is the amount one of the line's cells
\* denotes in accounting notation, so '(500)' gives '-500' and the sign is kept.
AccountingSignKept ==
  [][(FinancialStep /\ Len(rows') > Len(rows))
       => rows'[Len(rows')]["Amount"]
            \in {AccountingAmount(CellsOf(lines[i + 1])[c]) :
                   c \in 2..Len(CellsOf(lines[i + 1]))}]_vars

\* The marker a source line is: "income", "expense", or "null" for any other line.
MarkerOf(rawLine) ==
  LET name == toLowerCase(trim(CellAt(CellsOf(rawLine), 0)))
  IN  IF name \in {"income", "expense"} THEN name ELSE "null"

\* The section set by the last marker among lines[2..k], "null" if there is none.
LastMarker(k) ==
  LET markers == {j \in 2..k : MarkerOf(lines[j]) # "null"}
  IN  IF markers = {} THEN "null"
      ELSE MarkerOf(lines[CHOOSE j \in markers : \A m \in markers : m <= j])

\* C8: a marker line sets the section and emits nothing, a line read before
\* the first marker emits nothing, and an emitted row has the Type of the
\* section set by the most recent marker before its line.
SectionTracking ==
  [][FinancialStep =>
       /\ MarkerOf(lines[i + 1]) # "null"
            => currentType' = MarkerOf(lines[i + 1]) /\ rows' = rows
       /\ LastMarker(i) = "null" => rows' = rows
       /\ Len(rows') > Len(rows)
            => /\ rows' = Append(rows, rows'[Len(rows')])
               /\ rows'[Len(rows')]["Type"]
                    = (IF LastMarker(i) = "income" THEN "Income" ELSE "Expense")
               /\ LastMarker(i) \in {"income", "expense"}]_vars

\* C8 witness: a statement gave rows of both sections, so the section changed
\* between two emitted rows.
RowsOfBothSections ==
  /\ pc = "financial-statement"
  /\ \E j, k \in 1..Len(rows) :
       j < k /\ rows[j]["Type"] = "Income" /\ rows[k]["Type"] = "Expense"

\* The name begins, in any case, with one of the summary prefixes.
HasSummaryPrefix(name) ==
  \E prefix \in {"total ", "noi", "net operating", "operating income", "operating expense"} :
    startsWith(toLowerCase(name), prefix)

\* C21: a line whose trimmed first cell begins with a summary prefix emits
\* no row and leaves the section as it is, and no emitted row has such a Name.
SummaryRowsSkipped ==
  [][FinancialStep =>
       /\ HasSummaryPrefix(trim(CellAt(CellsOf(lines[i + 1]), 0)))
            => rows' = rows /\ currentType' = currentType
       /\ \A k \in 1..Len(rows') : ~HasSummaryPrefix(rows'[k]["Name"])]_vars

\* C21 witness: under a section, the extractor has passed a summary line
\* with a numeric Total cell and then kept a line item.
SummaryLinePassed ==
  /\ pc = "financial-statement"
  /\ i = 4
  /\ MarkerOf(lines[2]) # "null"
  /\ HasSummaryPrefix(trim(CellAt(CellsOf(lines[3]), 0)))
  /\ ~isNaN(parseFloat(ValueAt(CellsOf(lines[3]), totalColumnIndexOf(headers))))
  /\ Len(rows) = 1
  /\ currentType = MarkerOf(lines[2])

(***************************************************************************)
(* Properties of the column detector and the classifier.                   *)
(***************************************************************************)

\* C4: the confidence of detectColumns is between 0 and 100 and is the
\* rounded mean of the columns' confidences (each at most 100).
ConfidenceBound ==
  pc # "start" =>
    LET detected == [k \in 1..Len(headers) |-> DetectionOf(headers[k])]
    IN  /\ \A k \in 1..Len(headers) : detected[k].confidence \in 0..100
        /\ detectedColumns.confidence \in 0..100
        /\ detectedColumns.confidence
             = RoundDiv(SumConfidence(detected, 1), Len(headers))

\* A mapping with a date column, a description column and an amount-bearing column.
BankCriteria(mapping) ==
  /\ "date" \in TypesOf(mapping)
  /\ "description" \in TypesOf(mapping)
  /\ TypesOf(mapping) \cap {"amount", "debit", "credit"} # {}

\* C6: a mapping with a date, a description and an amount-bearing column is
\* classified bank-statement, whatever else the headers hold.
BankStatementFirst ==
  (pc # "start" /\ BankCriteria(detectedColumns.mapping))
    => detectedColumns.detectedFormat = "bank-statement"

\* C6 witness: headers that meet the bank criteria and also hold a month
\* token, which the financial-statement rule would accept.
BankHeadersWithMonthToken ==
  /\ pc # "start"
  /\ BankCriteria(detectedColumns.mapping)
  /\ includes(toLowerCase(join(headers, " ")), "jan")
  /\ detectedColumns.detectedFormat = "bank-statement"

\* C12: when neither the bank-statement nor the financial-statement rule
\* matches, the format is simple exactly when the mapping has a type or
\* category column, a name or description column and an amount-bearing column,
\* and is unknown otherwise.
SimpleNeedsAllThreeGroups ==
  (pc \notin {"start", "thrown"}
     /\ detectedColumns.detectedFormat \notin {"bank-statement", "financial-statement"})
    => LET types == TypesOf(detectedColumns.mapping)
       IN  detectedColumns.detectedFormat
             = IF /\ types \cap {"type", "category"} # {}
                  /\ types \cap {"name", "description"} # {}
                  /\ types \cap {"amount", "debit", "credit"} # {}
               THEN "simple" ELSE "unknown"

\* C13: when the bank-statement rule does not match, headers whose joined
\* lower-case text holds a month abbreviation (any of jan to dec), or holds
\* "total" while a column is typed total, are classified financial-statement.
AnyMonthTokenMakesStatement ==
  (pc \notin {"start", "thrown"} /\ ~BankCriteria(detectedColumns.mapping))
    => LET headerText == toLowerCase(join(headers, " "))
       IN  (\/ \E m \in 1..12 : includes(headerText, MonthNames[m])
            \/ (includes(headerText, "total")
                  /\ "total" \in TypesOf(detectedColumns.mapping)))
             => detectedColumns.detectedFormat = "financial-statement"

\* The largest alias score of the k-th type of the catalog for a normalized header.
TypeScore(normalized, k) == MaxAliasScore(normalized, COLUMN_ALIASES[k].aliases, 1)

\* No type of the catalog lists the normalized header as an alias.
NoExactAlias(normalized) ==
  \A k \in 1..Len(COLUMN_ALIASES) : TypeScore(normalized, k) < 100

\* The first type of the catalog whose largest alias score is the highest
\* of all types, with that score; ignore and 0 when no alias scores.
BestByMaxScore(normalized) ==
  LET best == CHOOSE b \in {0, 40, 60, 80} :
                /\ \A k \in 1..Len(COLUMN_ALIASES) : TypeScore(normalized, k) <= b
                /\ b > 0 => \E k \in 1..Len(COLUMN_ALIASES) : TypeScore(normalized, k) = b
      first == CHOOSE k \in 1..Len(COLUMN_ALIASES) :
                 /\ TypeScore(normalized, k) = best
                 /\ \A j \in 1..(k - 1) : TypeScore(normalized, j) < best
  IN  IF best = 0 THEN [type |-> "ignore", score |-> 0]
      ELSE [type |-> COLUMN_ALIASES[first].type, score |-> best]

\* The state right after the header has been read and its columns detected.
HeaderJustRead == pc \notin {"start", "thrown"} /\ i = 1

\* C14: a header with no exact alias match gets the first type of the
\* catalog whose largest alias score is highest, with that score as its
\* confidence, however many aliases of a type match.
TypeScoreIsMaxOverAliases ==
  HeaderJustRead =>
    \A c \in 1..Len(headers) :
      NoExactAlias(normalizeHeader(headers[c])) =>
        /\ detectedColumns.mapping[c] = BestByMaxScore(normalizeHeader(headers[c])).type
        /\ DetectionOf(headers[c]).confidence
             = BestByMaxScore(normalizeHeader(headers[c])).score

\* The types of the catalog that list the text as an alias, by catalog position.
TypesListing(text) ==
  {k \in 1..Len(COLUMN_ALIASES) :
     \E a \in 1..Len(COLUMN_ALIASES[k].aliases) : COLUMN_ALIASES[k].aliases[a] = text}

\* C15: a header whose normalized form is an alias of some type gets the
\* first type of the catalog that lists it, with confidence 100 and that type
\* as its only suggestion.
ExactAliasShortCircuit ==
  HeaderJustRead =>
    \A c \in 1..Len(headers) :
      LET listing == TypesListing(normalizeHeader(headers[c]))
      IN  listing # {} =>
            LET first == COLUMN_ALIASES[CHOOSE k \in listing : \A j \in listing : k <= j].type
            IN  /\ detectedColumns.mapping[c] = first
                /\ DetectionOf(headers[c]).confidence = 100
                /\ detectedColumns.suggestions[c] = <<first>>

\* C15 witness: the headers Transaction Date, Memo, Amount were mapped to
\* date, description, amount and classified bank-statement; an alias of the
\* earlier type "type" is similar to the first header.
TransactionDateMemoAmount ==
  /\ HeaderJustRead
  /\ headers = <<"Transaction Date", "Memo", "Amount">>
  /\ detectedColumns.mapping = <<"date", "description", "amount">>
  /\ detectedColumns.detectedFormat = "bank-statement"
  /\ TypeScore(normalizeHeader(headers[1]), 1) > 0

\* C10: when the classifier decides "unknown", the dataset returned has
\* format "unknown" and carries the detector's confidence.
UnknownFormatSurfaced ==
  (pc = "done" /\ detectedColumns.detectedFormat = "unknown")
    => /\ result.format = "unknown"
       /\ result.columnMappingConfidence = detectedColumns.confidence

(***************************************************************************)
(* Properties of the bank-statement and flexible extractors.  rows[k] was  *)
(* built from the raw row rawData[k + 1].                                  *)
(***************************************************************************)

BankStep == pc = "bank-statement" /\ i' = i + 1

\* The cell of a raw row in the (last) column of the given type, "" if none.
CellTyped(rawRow, mapping, columnType) ==
  LET cols == {c \in 1..Len(mapping) : mapping[c] = columnType}
  IN  IF cols = {} THEN ""
      ELSE CellAt(rawRow, (CHOOSE c \in cols : \A d \in cols : d <= c) - 1)

\* C5: a row whose debit cell parses above zero comes out as an Expense of
\* the debit value; otherwise a credit cell above zero gives an Income of
\* the credit value.
DebitCreditInference ==
  [][(BankStep /\ Len(rows') > Len(rows)) =>
       LET rawRow == parseCSVLine(lines[i + 1])
           debit  == parseFloat(CellTyped(rawRow, detectedColumns.mapping, "debit"))
           credit == parseFloat(CellTyped(rawRow, detectedColumns.mapping, "credit"))
           out    == rows'[Len(rows')]
       IN  /\ GtZero(debit)
                => out["Type"] = "Expense" /\ parseFloat(out["Amount"]) = debit
           /\ (~GtZero(debit) /\ GtZero(credit))
                => out["Type"] = "Income" /\ parseFloat(out["Amount"]) = credit]_vars

\* C5 witness: a row with a debit and a credit above zero and a Type cell
\* saying Income came out as an Expense.
DebitBeatsCreditAndTypeCell ==
  /\ pc = "bank-statement"
  /\ \E k \in 1..Len(rows) :
       /\ GtZero(parseFloat(CellTyped(rawData[k + 1], detectedColumns.mapping, "debit")))
       /\ GtZero(parseFloat(CellTyped(rawData[k + 1], detectedColumns.mapping, "credit")))
       /\ CellTyped(rawData[k + 1], detectedColumns.mapping, "type") = "Income"
       /\ rows[k]["Type"] = "Expense"

\* inferredType of validateBankStatementRow (columnMapper.ts); "undefined"
\* when it is never assigned.
inferredType(row) ==
  IF Get(row, "Debit") # "" \/ Get(row, "Credit") # ""
  THEN LET debit  == parseFloat(IF Get(row, "Debit") # "" THEN row["Debit"] ELSE "0")
           credit == parseFloat(IF Get(row, "Credit") # "" THEN row["Credit"] ELSE "0")
       IN  IF GtZero(credit) THEN "income"
           ELSE IF GtZero(debit) THEN "expense"
           ELSE "undefined"
  ELSE "undefined"

\* The Type value an inferredType names.
TypeNamed(inferred) == IF inferred = "income" THEN "Income" ELSE "Expense"

\* C28: for every row the bank-statement extractor emits with a Debit or
\* Credit value, the inferredType validateBankStatementRow returns for it,
\* when it returns one, names the Type the extractor gave the row.
ExtractorAndValidatorAgree ==
  pc = "bank-statement" =>
    \A k \in 1..Len(rows) :
      inferredType(rows[k]) # "undefined"
        => rows[k]["Type"] = TypeNamed(inferredType(rows[k]))

\* The positions in lines of the data rows with a cell that is not empty.
DataRowsWithText(textLines) ==
  {k \in 2..Len(textLines) : \E c \in Range(parseCSVLine(textLines[k])) : c # ""}

\* C25: the dataset parseCSV returns for a file classified bank-statement
\* has format 'bank-statement' and one row per data row that is not
\* entirely empty, in source order, whose Date is the text of the source
\* row's cell in the date column.
BankRowsAndDatesPreserved ==
  (pc = "done" /\ detectedColumns.detectedFormat = "bank-statement") =>
    /\ result.format = "bank-statement"
    /\ Len(result.rows) = Cardinality(DataRowsWithText(lines))
    /\ \A j \in 1..Len(result.rows) :
         Get(result.rows[j], "Date")
           = CellTyped(parseCSVLine(lines[Nth(DataRowsWithText(lines), j)]),
                       detectedColumns.mapping, "date")

\* C25 witness: a bank statement whose first data row is empty and whose
\* second is dated in the US style.
BankRowAfterEmptyRow ==
  /\ pc = "done"
  /\ detectedColumns.detectedFormat = "bank-statement"
  /\ content = "Date,Description,Debit,Credit,Type\n,,,\n11/18/2025,,abc,10"
  /\ Len(result.rows) = 1
  /\ result.rows[1]["Date"] = "11/18/2025"

\* The non-empty cells of a raw row in columns typed description or name.
NameCells(rawRow, mapping) ==
  {c \in 1..Len(mapping) :
     mapping[c] \in {"description", "name"} /\ CellAt(rawRow, c - 1) # ""}

InMappedParse == pc \in {"bank-statement", "flexible"}

\* The value a field has when the file gives it one, else its default.
FileOrDefault(cell, default) == IF cell # "" THEN cell ELSE default

\* C19: a row emitted by the bank-statement extractor has a non-empty Type,
\* Frequency, Category and Name; each is the file's value when the file has
\* one (for Type, unless the debit/credit inference set it), and the default
\* otherwise.
BankDefaultsOnlyWhenEmpty ==
  [][(BankStep /\ Len(rows') > Len(rows)) =>
       LET rawRow  == parseCSVLine(lines[i + 1])
           mapping == detectedColumns.mapping
           out     == rows'[Len(rows')]
           names   == {c \in 1..Len(mapping) :
                         mapping[c] \in {"description", "name"} /\ CellAt(rawRow, c - 1) # ""}
       IN  /\ \A f \in {"Type", "Frequency", "Category", "Name"} : Get(out, f) # ""
           /\ out["Frequency"]
                = FileOrDefault(CellTyped(rawRow, mapping, "frequency"), "one-time")
           /\ out["Category"]
                = FileOrDefault(CellTyped(rawRow, mapping, "category"), "Other")
           /\ out["Name"]
                = IF names = {} THEN "Transaction"
                  ELSE rawRow[CHOOSE c \in names : \A d \in names : d <= c]
           /\ (/\ ~GtZero(parseFloat(CellTyped(rawRow, mapping, "debit")))
               /\ ~GtZero(parseFloat(CellTyped(rawRow, mapping, "credit"))))
                => out["Type"] = FileOrDefault(CellTyped(rawRow, mapping, "type"), "Expense")]_vars

\* C19 witness: one emitted row kept the Category and Frequency of its file
\* and got the default Type, and another got the default Name and Frequency.
KeptAndDefaultedFields ==
  /\ pc = "bank-statement"
  /\ \E j, k \in 1..Len(rows) :
       /\ CellTyped(rawData[j + 1], detectedColumns.mapping, "frequency")
            \notin {"", "one-time"}
       /\ rows[j]["Frequency"]
            = CellTyped(rawData[j + 1], detectedColumns.mapping, "frequency")
       /\ CellTyped(rawData[j + 1], detectedColumns.mapping, "category") \notin {"", "Other"}
       /\ "type" \notin TypesOf(detectedColumns.mapping)
       /\ rows[j]["Type"] = "Expense"
       /\ NameCells(rawData[k + 1], detectedColumns.mapping) = {}
       /\ rows[k]["Name"] = "Transaction"
       /\ rows[k]["Frequency"] = "one-time"

FlexibleStep == pc = "flexible" /\ i' = i + 1

\* A raw row has a cell that is not blank in a column that is not ignored.
HasMappedValue(rawRow, mapping) ==
  \E c \in 1..Len(mapping) : mapping[c] # "ignore" /\ trim(CellAt(rawRow, c - 1)) # ""

\* C20: a step of the flexible extractor appends one row exactly
\* when the source row has a value that is not blank in a column that is not
\* ignored, and otherwise leaves the rows as they are.
KeepsRowsWithMappedValue ==
  [][FlexibleStep =>
       IF HasMappedValue(parseCSVLine(lines[i + 1]), detectedColumns.mapping)
       THEN Len(rows') = Len(rows) + 1 /\ SubSeq(rows', 1, Len(rows)) = rows
       ELSE rows' = rows]_vars

\* C9 as stated: Name is the first non-empty description or name cell.
FirstNonEmptyNameWins ==
  InMappedParse =>
    \A k \in 1..Len(rows) :
      LET cells == NameCells(rawData[k + 1], detectedColumns.mapping)
      IN  cells # {} =>
            rows[k]["Name"] = rawData[k + 1][CHOOSE c \in cells : \A d \in cells : c <= d]

\* C9 amended: Name is the last non-empty description or name cell; an
\* empty cell does not overwrite it.
LastNonEmptyNameWins ==
  InMappedParse =>
    \A k \in 1..Len(rows) :
      LET cells == NameCells(rawData[k + 1], detectedColumns.mapping)
      IN  cells # {} =>
            rows[k]["Name"] = rawData[k + 1][CHOOSE c \in cells : \A d \in cells : d <= c]

\* C9 witness: a row was built from two non-empty description or name cells
\* that differ, so first and last disagree.
TwoNamesInOneRow ==
  /\ InMappedParse
  /\ \E k \in 1..Len(rows) :
       \E c, d \in NameCells(rawData[k + 1], detectedColumns.mapping) :
         c < d /\ rawData[k + 1][c] # rawData[k + 1][d]

\* parseExcel of a sheet whose cells are all text: String(v || '') of a text
\* is the text itself, and String(h).trim() is its trim.
ExcelOfTextGrid(grid) == excelRows(grid, TrimAll(grid[1]))

SameFormatAndRows(a, b) == a.format = b.format /\ a.rows = b.rows

\* C16: the spreadsheet path, given the grid of text cells the text path
\* read from the file, returns the same format and the same rows.
SpreadsheetAgreesWithText ==
  pc = "done" =>
    SameFormatAndRows(
      ExcelOfTextGrid([k \in 1..Len(lines) |-> parseCSVLine(lines[k])]).data, result)

\* C11: parseCSV of a content without a character that is not white space
\* throws at once: it runs no extractor and returns no dataset.
EmptyContentThrows ==
  (trim(content) = "" /\ pc # "start") => (pc = "thrown" /\ result = NoResult)

\* The stepped parse returns what the function parseCSV returns.
StepsAgree == pc = "done" => result = parseCSV(content)

(***************************************************************************)
(* The upload side of ImportCenter (ImportCenter.tsx): handleFileUpload,   *)
(* the selection handlers and "Choose Different File".  The file input is  *)
(* rendered while no preview is shown and is disabled while isProcessing.  *)
(* A file is its name and its text; the text of an Excel file stands for   *)
(* the sheet whose rows are the text's lines.                              *)
(***************************************************************************)

FileTexts ==
  {"",
   "Foo,Bar",
   "Type,Name,Amount,Frequency\nIncome,Salary,5000,monthly\nExpense,,abc,weird",
   "Type,Name,Amount,Frequency\nIncome,Salary,5000,monthly\nA,B,10\nA,,10",
   "Name,Balance\nA,B,10\n,B,10",
   "Date,Description,Debit,Credit,Type\n2025-11-15,Coffee,50.00,0,Income\n11/18/2025,,abc,10",
   "Account Name,Jan 2025,Feb 2025,Mar 2025,Total\nIncome\nRefund,(500),0,200,(300)",
   "Date,Description,Debit,Credit\n2025-11-19,Fee,abc,\n2025-11-20,,,x1",
   "Type,Name,Amount,Date\nFoo,,abc,someday\n,Rent,-5,2025-01-02\nIncome,Pay,10,soon\nIncome,,10,01/02/2025",
   "Type,Name,Amount,Frequency\nIncome,Salary,5000\nExpense,Rent,5,weird",
   "Type,Item,Amount,Debit\nIncome,Gift,10,\nExpense,Rent,5,"}

\* The texts that are also uploaded as old.xls and as notes.txt.
DispatchTexts ==
  {"",
   "Date,Description,Debit,Credit,Type\n2025-11-15,Coffee,50.00,0,Income\n11/18/2025,,abc,10"}

\* The texts that are also uploaded as the sheet of a workbook.
SheetTexts ==
  {"Type,Name,Amount,Date\nFoo,,abc,someday\n,Rent,-5,2025-01-02\nIncome,Pay,10,soon\nIncome,,10,01/02/2025"}

UploadFiles ==
  [name : {"data.csv"}, text : FileTexts]
    \cup [name : {"old.xls", "notes.txt"}, text : DispatchTexts]
    \cup [name : {"Book.XLSX"}, text : SheetTexts]

\* The first sheet of an Excel file.
SheetRows(textLines) == [r \in 1..Len(textLines) |-> parseCSVLine(textLines[r])]

SheetOf(text) == IF text = "" THEN <<>> ELSE SheetRows(split(text, "\n"))

\* The text parser as handleFileUpload calls it.
ParseText(text) ==
  IF NoLines(LinesOf(text)) THEN Thrown("Empty CSV file") ELSE Parsed(parseCSV(text))

\* A variant of ParseOf that hands every name that is not a spreadsheet's
\* to the text parser.
ParseOfTextByDefault(file) ==
  IF endsWith(toLowerCase(file.name), ".xlsx") \/ endsWith(toLowerCase(file.name), ".xls")
  THEN parseExcel(SheetOf(file.text))
  ELSE ParseText(file.text)

\* The parse handleFileUpload picks by the file's extension.
ParseOf(file) ==
  LET fileName == toLowerCase(file.name)
  IN  IF endsWith(fileName, ".xlsx") \/ endsWith(fileName, ".xls")
      THEN parseExcel(SheetOf(file.text))
      ELSE IF endsWith(fileName, ".csv")
      THEN ParseText(file.text)
      ELSE Thrown("Unsupported file format. Please use .csv or .xlsx files.")

\* The entry of a bucket for the row of 0-based index: { index, data, errors }.
BucketEntry(index, row, validation) ==
  [index |-> index, data |-> row, errors |-> validation.errors]

\* The entries pushed for the rows at the given (1-based) positions, in row order.
EntriesAt(data, positions) ==
  [j \in 1..Cardinality(positions) |->
     BucketEntry(Nth(positions, j) - 1, data.rows[Nth(positions, j)],
                 validateIncomeExpenseRow(data.rows[Nth(positions, j)]))]

\* validRows (wanted = TRUE) or invalidRows (wanted = FALSE) after the forEach.
BucketOf(data, wanted) ==
  EntriesAt(data, {k \in 1..Len(data.rows) :
                     validateIncomeExpenseRow(data.rows[k]).valid = wanted})

\* The message shown with a preview (without its leading emoji).
PreviewMessage(data, validRows, invalidRows) ==
  LET confidenceText ==
        IF Has(data, "columnMappingConfidence") /\ data.columnMappingConfidence # 0
        THEN " (" \o NatToStr(data.columnMappingConfidence) \o "% confidence)"
        ELSE ""
      label == getFormatLabel(data.format) \o confidenceText
  IN  IF Len(validRows) = Len(data.rows)
      THEN [type |-> "success",
            text |-> label \o " | All " \o NatToStr(Len(validRows)) \o " rows are valid!"]
      ELSE [type |-> "info",
            text |-> label \o " | Found " \o NatToStr(Len(validRows))
                       \o " valid rows and " \o NatToStr(Len(invalidRows))
                       \o " invalid rows"]

\* handleFileUpload up to its first await.
UploadBegin ==
  /\ preview = NoPreview
  /\ importResult = NoImportResult
  /\ ~isProcessing
  /\ upload = NoFile
  /\ upload' \in UploadFiles
  /\ isProcessing' = TRUE
  /\ message' = NoMessage
  /\ UNCHANGED <<columnDetection, lineVars, overrides, importVars, parseVars, preview, selectedRows>>

\* What a handler leaves on the screen: the preview, the selection and the
\* message it has set, or found, when it ends.

\* setPreview, setSelectedRows and setMessage at the end of the try block.
ShowPreview(csvType, data, validRows, invalidRows) ==
  [preview |-> [type |-> csvType, data |-> data,
                validRows |-> validRows, invalidRows |-> invalidRows,
                fileFormat |-> getFormatLabel(data.format)],
   selectedRows |-> {validRows[j].index : j \in 1..Len(validRows)},
   message |-> PreviewMessage(data, validRows, invalidRows)]

\* setMessage({ type: 'error', text }) with the preview and the selection as
\* they are.
ShowError(text) ==
  [preview |-> preview, selectedRows |-> selectedRows,
   message |-> [type |-> "error", text |-> text]]

\* handleFileUpload after detectCSVType.
AfterDetect(csvType, data) ==
  IF csvType = "unknown" /\ data.format = "unknown"
  THEN ShowError("Unable to detect file format. Please ensure your file has columns like: Date, Description, Amount, or Type, Name, Amount, Frequency")
  ELSE IF csvType = "income-expense"
  THEN ShowPreview(csvType, data, BucketOf(data, TRUE), BucketOf(data, FALSE))
  ELSE ShowPreview(csvType, data, <<>>, <<>>)

\* handleFileUpload after the parse: its result, or the error caught.
AfterParse(parsed) ==
  IF ~parsed.ok THEN ShowError(parsed.error)
  ELSE AfterDetect(detectCSVType(parsed.data.headers), parsed.data)

\* The state setters of a handler take effect.
Render(shown) ==
  /\ preview' = shown.preview
  /\ selectedRows' = shown.selectedRows
  /\ message' = shown.message

\* A variant of Finally that leaves the flag as it is.
FinallyMissing == UNCHANGED isProcessing

\* finally { setIsProcessing(false) }
Finally == isProcessing' = FALSE

\* handleFileUpload from the parse to its finally block.
UploadFinish ==
  /\ upload # NoFile
  /\ \E shown \in {AfterParse(ParseOf(upload))} : Render(shown)
  /\ Finally
  /\ upload' = NoFile
  /\ UNCHANGED <<columnDetection, lineVars, overrides, importVars, parseVars>>

\* The checkbox of a valid row.
toggleRowSelection ==
  /\ preview # NoPreview
  /\ \E j \in 1..Len(preview.validRows) :
       LET index == preview.validRows[j].index
       IN  selectedRows' = IF index \in selectedRows
                           THEN selectedRows \ {index}
                           ELSE selectedRows \cup {index}
  /\ UNCHANGED <<columnDetection, lineVars, overrides, importVars, parseVars, upload, preview, isProcessing, message>>

\* The "Select All" button and the checkbox of the table's header.
toggleAllSelection ==
  /\ preview # NoPreview
  /\ Len(preview.validRows) > 0
  /\ selectedRows' =
       IF Cardinality(selectedRows) = Len(preview.validRows) THEN {}
       ELSE {preview.validRows[j].index : j \in 1..Len(preview.validRows)}
  /\ UNCHANGED <<columnDetection, lineVars, overrides, importVars, parseVars, upload, preview, isProcessing, message>>

\* The "Choose Different File" button: setPreview(null).
ChooseDifferentFile ==
  /\ preview # NoPreview
  /\ preview' = NoPreview
  /\ UNCHANGED <<columnDetection, lineVars, overrides, importVars, parseVars, upload, isProcessing, message, selectedRows>>

\* The most records the store holds before the Import button is left alone.
MaxStored == 1

\* handleImport up to its first await; the handler keeps the preview and
\* the selection of the render in which the button was clicked.  The button
\* is rendered with a preview that has valid rows and is disabled while
\* nothing is selected or isProcessing.
ImportBegin ==
  /\ preview # NoPreview
  /\ Len(preview.validRows) > 0
  /\ selectedRows # {}
  /\ ~isProcessing
  /\ Len(store) < MaxStored
  /\ importing' = [preview |-> preview, selectedRows |-> selectedRows]
  /\ isProcessing' = TRUE
  /\ message' = NoMessage
  /\ UNCHANGED <<columnDetection, lineVars, overrides, parseVars, upload, preview, selectedRows,
                 importResult, store>>

\* newRecord of handleImport with the table it goes to; row is row.index.
ImportRecord(entry) ==
  [table     |-> IF Get(entry.data, "Type") = "Income" THEN "incomes" ELSE "expenses",
   row       |-> entry.index,
   name      |-> Get(entry.data, "Name"),
   amount    |-> parseFloat(Get(entry.data, "Amount")),
   frequency |-> toLowerCase(entry.data["Frequency"]),
   category  |-> IF Get(entry.data, "Category") # "" THEN entry.data["Category"] ELSE "Other"]

\* A variant of SelectedPositions that skips no row.
AllPositions(validRows, selected) == DOMAIN validRows

\* The positions in validRows of the rows the loop does not skip.
SelectedPositions(validRows, selected) ==
  {j \in 1..Len(validRows) : validRows[j].index \in selected}

\* data['Frequency'].toLowerCase() throws when the row has no Frequency.
RecordThrows(entry) == ~Has(entry.data, "Frequency")

\* The positions the loop handles before it ends or a record throws.
HandledPositions(validRows, positions) ==
  {j \in positions : \A k \in positions : k <= j => ~RecordThrows(validRows[k])}

\* The records added for the positions whose add succeeded, in row order.
AddedRecords(validRows, positions) ==
  [k \in 1..Cardinality(positions) |-> ImportRecord(validRows[Nth(positions, k)])]

CountOf(records, table) == Cardinality({k \in 1..Len(records) : records[k].table = table})

\* handleImport after its loop has ended with the records added.
ImportSucceeds(added) ==
  [store |-> store \o added,
   importResult |-> [incomeCount |-> CountOf(added, "incomes"),
                     expenseCount |-> CountOf(added, "expenses")],
   shown |-> [preview |-> NoPreview, selectedRows |-> {},
              message |-> [type |-> "success",
                           text |-> "Successfully imported " \o NatToStr(Len(added))
                                      \o " records!"]]]

\* handleImport after a record has thrown: the outer catch.
ImportFails(added) ==
  [store |-> store \o added,
   importResult |-> importResult,
   shown |-> ShowError("Failed to import data. Please try again.")]

\* The loop of handleImport over the positions it handles, the adds at the
\* positions in failed having been rejected by the store (the inner catch
\* logs them).
ImportLoop(validRows, positions, handled, failed) ==
  IF handled = positions
  THEN ImportSucceeds(AddedRecords(validRows, handled \ failed))
  ELSE ImportFails(AddedRecords(validRows, handled \ failed))

\* The ways the loop can end for the rows selected: any of its adds may fail.
ImportRows(validRows, positions) ==
  {ImportLoop(validRows, positions, HandledPositions(validRows, positions), failed) :
     failed \in SUBSET HandledPositions(validRows, positions)}

\* The ways handleImport can end for the preview and selection it holds.
ImportOutcomes(held) ==
  IF held.preview.type = "income-expense"
  THEN ImportRows(held.preview.validRows,
                  SelectedPositions(held.preview.validRows, held.selectedRows))
  ELSE {ImportSucceeds(<<>>)}

\* handleImport from its try block to its finally block.
ImportFinish ==
  /\ importing # NoImport
  /\ \E done \in ImportOutcomes(importing) :
       /\ store' = done.store
       /\ importResult' = done.importResult
       /\ Render(done.shown)
  /\ Finally
  /\ importing' = NoImport
  /\ UNCHANGED <<columnDetection, lineVars, overrides, parseVars, upload>>

\* The "Import Another File" button.
ImportAnotherFile ==
  /\ importResult # NoImportResult
  /\ importResult' = NoImportResult
  /\ message' = NoMessage
  /\ UNCHANGED <<columnDetection, lineVars, overrides, parseVars, upload, preview, isProcessing,
                 selectedRows, importing, store>>

InitUI ==
  /\ columnDetection = ColumnDetectionTable
  /\ NoLine
  /\ content = ""
  /\ pc = "start"
  /\ lines = <<>>
  /\ headers = <<>>
  /\ detectedColumns = NoDetection
  /\ i = 0
  /\ currentType = "null"
  /\ rows = <<>>
  /\ rawData = <<>>
  /\ result = NoResult
  /\ UIInit

NextUI ==
  UploadBegin \/ UploadFinish \/ toggleRowSelection \/ toggleAllSelection
    \/ ChooseDifferentFile \/ ImportBegin \/ ImportFinish \/ ImportAnotherFile

SpecUI == InitUI /\ [][NextUI]_vars

\* The row indices a bucket holds.
IndicesOf(bucket) == {bucket[j].index : j \in 1..Len(bucket)}

\* C7: once an upload has produced a preview, every row of the dataset is in
\* exactly one of validRows and invalidRows, a row is in invalidRows exactly
\* when its validation failed, and every invalid row carries an error.
EveryRowInOneBucket ==
  preview # NoPreview =>
    /\ Len(preview.validRows) + Len(preview.invalidRows) = Len(preview.data.rows)
    /\ \A k \in 1..Len(preview.data.rows) :
         /\ (k - 1) \in IndicesOf(preview.validRows) \cup IndicesOf(preview.invalidRows)
         /\ (k - 1) \notin IndicesOf(preview.validRows) \cap IndicesOf(preview.invalidRows)
         /\ (k - 1) \in IndicesOf(preview.invalidRows)
              <=> ~validateIncomeExpenseRow(preview.data.rows[k]).valid
    /\ \A j \in 1..Len(preview.invalidRows) : Len(preview.invalidRows[j].errors) > 0

\* A field that is present and does not parse as a number.
Garbled(row, field) == Get(row, field) # "" /\ isNaN(parseFloat(row[field]))

\* C17: in a preview of income-expense data, a row without Amount whose
\* Debit or Credit is present and does not parse as a number is invalid and
\* has an error that names the debit/credit amount.
GarbledDebitCreditIsInvalid ==
  (preview # NoPreview /\ preview.type = "income-expense") =>
    \A k \in 1..Len(preview.data.rows) :
      (/\ Get(preview.data.rows[k], "Amount") = ""
       /\ (Garbled(preview.data.rows[k], "Debit") \/ Garbled(preview.data.rows[k], "Credit")))
        => \E j \in 1..Len(preview.invalidRows) :
             /\ preview.invalidRows[j].index = k - 1
             /\ \E e \in 1..Len(preview.invalidRows[j].errors) :
                  includes(preview.invalidRows[j].errors[e], "Debit or Credit")

\* A field that is present and parses above zero.
Positive(row, field) == Get(row, field) # "" /\ GtZero(parseFloat(row[field]))

\* The check of one field, stated on the row alone.
FieldFails(row, field) ==
  CASE field = "Type" ->
         LET t == toLowerCase(trim(Get(row, "Type")))
         IN  \/ t = ""
             \/ /\ ~includes(t, "income") /\ ~includes(t, "expense")
                /\ ~Positive(row, "Debit") /\ ~Positive(row, "Credit")
    [] field = "Name" -> trim(Get(row, "Name")) = ""
    [] field = "Amount" ->
         IF Get(row, "Amount") # ""
         THEN LET v == parseFloat(StripChars(row["Amount"], {"$", ",", "(", ")"}, 1))
              IN  isNaN(v) \/ LtZero(v)
         ELSE IF Get(row, "Debit") = "" /\ Get(row, "Credit") = "" THEN TRUE
         ELSE Garbled(row, "Debit") /\ Garbled(row, "Credit")
    [] field = "Date" -> Get(row, "Date") # "" /\ ~isValidDateString(row["Date"])

\* The field an error string is about.
ErrorField(error) ==
  CASE startsWith(error, "Type ") -> "Type"
    [] startsWith(error, "Description/Name ") -> "Name"
    [] startsWith(error, "Amount ") \/ startsWith(error, "Debit or Credit ") -> "Amount"
    [] startsWith(error, "Date ") -> "Date"
    [] OTHER -> "none"

\* The fields whose check fails, in the order Type, Name, Amount, Date.
FailedFields(row) ==
  LET Fails(field) == FieldFails(row, field)
  IN  SelectSeq(<<"Type", "Name", "Amount", "Date">>, Fails)

\* The entries of a bucket carry one error per failed field, in order.
ErrorsMatchFailures(bucket) ==
  \A j \in 1..Len(bucket) :
    [e \in 1..Len(bucket[j].errors) |-> ErrorField(bucket[j].errors[e])]
      = FailedFields(bucket[j].data)

\* C18: every validated row has exactly one error for each of its failed
\* checks, in the order Type, Name, Amount, Date, and it is in validRows
\* exactly when it has no error.
ErrorsAreCollected ==
  (preview # NoPreview /\ preview.type = "income-expense") =>
    /\ ErrorsMatchFailures(preview.validRows)
    /\ ErrorsMatchFailures(preview.invalidRows)
    /\ \A j \in 1..Len(preview.validRows) : preview.validRows[j].errors = <<>>
    /\ \A j \in 1..Len(preview.invalidRows) : preview.invalidRows[j].errors # <<>>

\* C18 witness: a preview holds a row that failed all four checks and has
\* four errors, and a row that failed the first and the third only.
RowsWithFourAndTwoErrors ==
  /\ preview # NoPreview
  /\ preview.type = "income-expense"
  /\ \E j, k \in 1..Len(preview.invalidRows) :
       /\ Len(preview.invalidRows[j].errors) = 4
       /\ FailedFields(preview.invalidRows[k].data) = <<"Type", "Amount">>

\* const validFrequencies of validateIncomeExpenseRow.
validFrequencies ==
  {"daily", "weekly", "bi-weekly", "semi-monthly", "monthly", "quarterly",
   "annually", "one-time", "recurring", "not specified"}

\* The row has a Frequency that names one of validFrequencies.
RecognizedFrequency(row) ==
  LET frequencyValue == toLowerCase(trim(Get(row, "Frequency")))
  IN  frequencyValue # "" /\ \E f \in validFrequencies : includes(frequencyValue, f)

\* A step in which a running handleImport ends.
ImportEnds == importing # NoImport /\ importing' = NoImport

\* The records the step has added to the store.
RecordsWritten == SubSeq(store', Len(store) + 1, Len(store'))

\* The entries of validRows that handleImport was asked to commit.
SelectedEntries(held) ==
  {held.preview.validRows[j] :
     j \in SelectedPositions(held.preview.validRows, held.selectedRows)}

\* The records written for the row of an index.
RecordsOf(written, index) == {k \in 1..Len(written) : written[k].row = index}

\* C23: a row whose Frequency is missing or not a recognized frequency is
\* not rejected by validation for it, and when handleImport commits such a
\* valid, selected row, every record written for it has frequency
\* 'one-time' and the import is not aborted (it ends without the 'Failed to
\* import data' error).
FrequencyToleratedEndToEnd ==
  [][/\ (preview' # NoPreview /\ preview'.type = "income-expense") =>
          \A j \in 1..Len(preview'.invalidRows) :
            FailedFields(preview'.invalidRows[j].data) # <<>>
     /\ ImportEnds =>
          \A entry \in SelectedEntries(importing) :
            ~RecognizedFrequency(entry.data) =>
              /\ message'.type # "error"
              /\ \A k \in RecordsOf(RecordsWritten, entry.index) :
                   RecordsWritten[k].frequency = "one-time"]_vars

\* A step in which a running handleFileUpload ends.
UploadEnds == upload # NoFile /\ upload' = NoFile

\* The parser a file name is dispatched to, "none" for a rejected name.
ParserFor(name) ==
  CASE endsWith(toLowerCase(name), ".csv") -> "text"
    [] endsWith(toLowerCase(name), ".xlsx") \/ endsWith(toLowerCase(name), ".xls") -> "spreadsheet"
    [] OTHER -> "none"

UnsupportedFormat ==
  [type |-> "error", text |-> "Unsupported file format. Please use .csv or .xlsx files."]

\* C24: a preview of a file whose lower-cased name ends in .csv holds the
\* text parser's dataset, one of a name ending in .xlsx or .xls holds the
\* spreadsheet parser's; any other name ends with the 'unsupported format'
\* error message whatever the file holds, with no preview and the selection
\* unchanged.
FileTypeDispatch ==
  [][UploadEnds =>
       CASE ParserFor(upload.name) = "text" ->
              preview' # NoPreview => preview'.data = parseCSV(upload.text)
         [] ParserFor(upload.name) = "spreadsheet" ->
              preview' # NoPreview => preview'.data = parseExcel(SheetOf(upload.text)).data
         [] OTHER ->
              /\ message' = UnsupportedFormat
              /\ preview' = NoPreview
              /\ selectedRows' = selectedRows]_vars

\* C24: an unsupported file has been rejected while the selection of an
\* earlier preview was still held.
UnsupportedFileRejected ==
  /\ message = UnsupportedFormat
  /\ preview = NoPreview
  /\ selectedRows # {}
  /\ upload = NoFile

\* C27: the store changes only when a handleImport ends, and then only by
\* new records: each for a row of validRows of the preview the import was
\* started on whose index was selected when it started, at most one per
\* row, none for a row of invalidRows or a deselected row; the counts
\* reported add up to the number of records written, and an import that
\* reports none has written none.
CommitSafety ==
  [][/\ ~ImportEnds => store' = store
     /\ ImportEnds =>
          /\ Len(store') >= Len(store)
          /\ SubSeq(store', 1, Len(store)) = store
          /\ \A k \in 1..Len(RecordsWritten) :
               /\ \E entry \in SelectedEntries(importing) :
                    entry.index = RecordsWritten[k].row
               /\ RecordsWritten[k].row \notin IndicesOf(importing.preview.invalidRows)
               /\ RecordsWritten[k].row \in importing.selectedRows
               /\ RecordsOf(RecordsWritten, RecordsWritten[k].row) = {k}
          /\ IF importResult' # NoImportResult
             THEN importResult'.incomeCount + importResult'.expenseCount
                    = Len(RecordsWritten)
             ELSE Len(RecordsWritten) = 0]_vars

\* C27 witness: an import has written the second row of a preview and not
\* the first, and has reported one record.
OnlySecondRowWritten ==
  /\ Len(store) = 1
  /\ store[1].row = 1
  /\ importResult # NoImportResult
  /\ importResult.incomeCount + importResult.expenseCount = 1
  /\ message = [type |-> "success", text |-> "Successfully imported 1 records!"]

\* The screen under the scheduling of its handlers: the promises a handler
\* awaits (file.text(), the sheet, the adds of the store) settle, and the
\* handler's continuation then runs.  UploadFinish is enabled whenever an
\* upload runs and is the only step that ends it, so its weak fairness is that
\* of the step UploadEnds on upload; likewise ImportFinish and ImportEnds.
SpecUILive == SpecUI /\ WF_upload(UploadEnds) /\ WF_importing(ImportEnds)

\* C30: whenever isProcessing is true, it is false again later.
ProcessingFlagReleased == isProcessing ~> ~isProcessing

\* C30 witness: the flag has been released by an import that failed.
ReleasedAfterFailedImport ==
  /\ ~isProcessing
  /\ importing = NoImport
  /\ message = [type |-> "error", text |-> "Failed to import data. Please try again."]

(***************************************************************************)
(* The tokenizer on its own: parseCSVLine applied to every line of at most *)
(* MaxLineLen characters over a letter, the comma, the double quote and    *)
(* the space.                                                              *)
(***************************************************************************)

MaxLineLen == 5

LineChars == {"a", ",", "\"", " "}

TokenizerLines == {join(chars, "") : chars \in BoundedSeq(LineChars, MaxLineLen)}

InitLine ==
  /\ columnDetection = ColumnDetectionTable
  /\ tokenLine \in TokenizerLines
  /\ tokenCells = <<>>
  /\ content = ""
  /\ pc = "start"
  /\ lines = <<>>
  /\ headers = <<>>
  /\ detectedColumns = NoDetection
  /\ i = 0
  /\ currentType = "null"
  /\ rows = <<>>
  /\ rawData = <<>>
  /\ result = NoResult
  /\ UIInit

Tokenize ==
  /\ tokenCells = <<>>
  /\ tokenCells' = parseCSVLine(tokenLine)
  /\ UNCHANGED <<columnDetection, tokenLine, overrides, parseVars, uiVars, importVars>>

SpecLine == InitLine /\ [][Tokenize]_vars

\* The double quotes of the line before position k.
QuotesBefore(k) == Cardinality({q \in 1..(k - 1) : CharAt(tokenLine, q) = "\""})

\* The commas of the line outside quoted regions: those with an even number
\* of double quotes before them.
OuterCommas == {k \in 1..Len(tokenLine) : CharAt(tokenLine, k) = "," /\ QuotesBefore(k) % 2 = 0}

\* The part of the line that makes the j-th cell: between the (j - 1)-th and
\* the j-th outer comma.
SegmentStart(j) ==
  IF j = 1 THEN 1 ELSE Nth(OuterCommas, j - 1) + 1

SegmentEnd(j) ==
  IF j > Cardinality(OuterCommas) THEN Len(tokenLine) ELSE Nth(OuterCommas, j) - 1

\* The literal quotes of a segment: a run of r double quotes met outside a
\* quoted region opens it and then holds (r - 1) \div 2 doubled quotes, a run
\* met inside holds r \div 2.
LiteralQuotes(j) ==
  LET starts == {k \in SegmentStart(j)..SegmentEnd(j) :
                   CharAt(tokenLine, k) = "\"" /\ (k = SegmentStart(j) \/ CharAt(tokenLine, k - 1) # "\"")}
      runLen(k) == CHOOSE r \in 1..Len(tokenLine) :
                     /\ \A m \in k..(k + r - 1) : CharAt(tokenLine, m) = "\""
                     /\ CharAt(tokenLine, k + r) # "\""
      held(k) == IF QuotesBefore(k) % 2 = 0 THEN (runLen(k) - 1) \div 2 ELSE runLen(k) \div 2
  IN  Cardinality({p \in (1..Len(tokenLine)) \X (1..Len(tokenLine)) :
                     p[1] \in starts /\ p[2] <= held(p[1])})

\* C22: parseCSVLine returns one cell more than the line has commas outside
\* quoted regions; each cell holds, in order, the characters of its part of
\* the line other than double quotes and spaces, commas inside quotes
\* included, and one double quote for each doubled quote inside a quoted
\* region; the delimiting quotes are not in the cell, and an open quote runs
\* to the end of the line.
TokenizerQuoting ==
  tokenCells # <<>> =>
    /\ Len(tokenCells) = 1 + Cardinality(OuterCommas)
    /\ \A j \in 1..Len(tokenCells) :
         /\ StripChars(tokenCells[j], {"\"", " "}, 1)
              = StripChars(SubSeq(tokenLine, SegmentStart(j), SegmentEnd(j)), {"\"", " "}, 1)
         /\ Cardinality({k \in 1..Len(tokenCells[j]) : CharAt(tokenCells[j], k) = "\""})
              = LiteralQuotes(j)

\* C22 witness: a line with a comma inside a quoted field, a doubled quote
\* and no closing quote gave one cell holding the comma and one quote.
QuotedCommaAndDoubledQuote ==
  /\ tokenLine = "\"a,\"\""
  /\ tokenCells = <<"a,\"">>

(***************************************************************************)
(* The column mapping on its own: detectColumns applied to the header line *)
(* of every kind of input file, then re-typed column by column in the      *)
(* mapping dialog.  The dialog hands the new mapping to its parent, which   *)
(* is taken to put it in the place of the old one.                         *)
(***************************************************************************)

\* The most columns re-typed in the dialog.
MaxOverrides == 1

MappingHeaders ==
  {parseCSVLine(h) :
     h \in FinancialHeaders \cup SummaryHeaders \cup BankHeaders \cup FlexibleHeaders}

\* const COLUMN_TYPES of ColumnMappingUI.tsx
COLUMN_TYPES ==
  {"type", "date", "description", "amount", "debit", "credit", "category",
   "account", "frequency", "name", "balance", "total", "ignore"}

InitMapping ==
  /\ columnDetection = ColumnDetectionTable
  /\ NoLine
  /\ UIInit
  /\ content = ""
  /\ pc = "headers"
  /\ lines = <<>>
  /\ headers \in MappingHeaders
  /\ detectedColumns = NoDetection
  /\ i = 0
  /\ currentType = "null"
  /\ rows = <<>>
  /\ rawData = <<>>
  /\ result = NoResult

\* const detectedColumns = detectColumns(headers)
DetectColumns ==
  /\ pc = "headers"
  /\ detectedColumns' = detectColumns(headers)
  /\ pc' = "mapping"
  /\ UNCHANGED <<columnDetection, lineVars, overrides, uiVars, importVars, content, lines,
                 headers, i, currentType, rows, rawData, result>>

\* object[key] = value on a copy: the key is added when the object lacks it.
SetKey(object, key, value) ==
  [g \in (DOMAIN object) \cup {key} |-> IF g = key THEN value ELSE object[g]]

\* A variant of Assign that counts the columns from one.
AssignOneBased(mapping, columnIndex, newType) == SetKey(mapping, columnIndex + 2, newType)

\* newMapping = { ...mapping }; newMapping[columnIndex] = newType
\* (the type of column columnIndex is at position columnIndex + 1).
Assign(mapping, columnIndex, newType) == SetKey(mapping, columnIndex + 1, newType)

\* The select of one column of the dialog: headers.map((header, index) => ...).
handleColumnTypeChange ==
  /\ pc = "mapping"
  /\ overrides < MaxOverrides
  /\ \E columnIndex \in 0..(Len(headers) - 1), newType \in COLUMN_TYPES :
       detectedColumns' =
         [detectedColumns EXCEPT !.mapping = Assign(@, columnIndex, newType)]
  /\ overrides' = overrides + 1
  /\ UNCHANGED <<columnDetection, lineVars, uiVars, importVars, content, pc, lines, headers,
                 i, currentType, rows, rawData, result>>

NextMapping == DetectColumns \/ handleColumnTypeChange

SpecMapping == InitMapping /\ [][NextMapping]_vars

\* No alias of the catalog scores for the normalized header.
MatchesNoAlias(normalized) ==
  \A k \in 1..Len(COLUMN_ALIASES) : TypeScore(normalized, k) = 0

\* C26: the mapping of detectColumns, also after columns were re-typed in
\* the dialog, has exactly the keys of the header's columns, each with one
\* column type; as detected, a column matching no alias is typed 'ignore'.
MappingCoversHeaders ==
  pc = "mapping" =>
    /\ DOMAIN detectedColumns.mapping = 1..Len(headers)
    /\ \A c \in 1..Len(headers) : detectedColumns.mapping[c] \in ColumnTypes
    /\ overrides = 0 =>
         \A c \in 1..Len(headers) :
           MatchesNoAlias(normalizeHeader(headers[c]))
             => detectedColumns.mapping[c] = "ignore"

\* C26 witness: of two columns that matched no alias, the last was re-typed.
IgnoredColumnRetyped ==
  /\ pc = "mapping"
  /\ headers = <<"Foo", "Bar">>
  /\ overrides = 1
  /\ detectedColumns.mapping = <<"ignore", "date">>

====
